---- MODULE Spec2Model ----
(***************************************************************************)
(* Brick partitioning engine (DVIDSparkServices/io_util/brick.py) and the  *)
(* segmentation stitcher (DVIDSparkServices/reconutils/Segmentor.py).      *)
(*                                                                         *)
(* Boxes are pairs <<start, stop>> of coordinate vectors (half-open), as   *)
(* the numpy arrays box[0], box[1] of the source.  A volume is a record    *)
(* [shape, data] with data indexed by local (0-based) coordinates.         *)
(***************************************************************************)
EXTENDS Integers, Sequences, FiniteSets, Bags, TLC

(* ------------------------------ bounds -------------------------------- *)
\* number of axes of a box (the source handles boxes axis by axis)
Dim == 2
\* bounding boxes lie in -MaxNeg .. MaxCoord on every axis
MaxNeg == 1
MaxCoord == 2
\* grid block widths 1..MaxBlock, grid offsets 0..MaxOffset
MaxBlock == 2
MaxOffset == 1
\* the padding runs use brick and padding grids of block widths 1..MaxPadBlock
\* and bounding boxes inside 0..MaxPadCoord
MaxPadBlock == 4
MaxPadCoord == 4
\* labels 1..MaxLabel1 in boundary1 and 1..MaxLabel2 in boundary2 of a neighbor pair
MaxLabel1 == 3
MaxLabel2 == 2
\* the driver merges at most MaxEdges edges over the global labels 1..MaxMergeLabel
MaxEdges == 3
MaxMergeLabel == 4

(* -------------------------- program constants ------------------------- *)
hard_lb == 50
liberal_lb == 1000
\* conservative_overlap = 0.90, as a percentage
conservative_overlap_pct == 90

Axes == 1..Dim
Coords == (0 - MaxNeg)..MaxCoord

VARIABLES
    pc,            \* position of the driver in the pipeline
    bounding_box,  \* bounding box given to the grid / brick generators
    grid,          \* grid the current wall is tiled on
    boxes,         \* boxes yielded by the last grid enumeration
    wall,          \* current list of bricks
    first_wall,    \* the wall handed to the first realign_bricks_to_new_grid
    first_grid,    \* the grid that wall was tiled on
    prev_wall,     \* the wall handed to the most recent operation
    pad_grid,      \* padding grid of the most recent padding
    halo_calls,    \* per brick, the halo boxes requested from the accessor
    stitch_mode,   \* Segmentor.stitch_mode: 0 none, 1 conservative, 2 medium, 3 aggressive
    plane,         \* overlap voxels on the interface plane: count per (body1, body2)
    off_plane,     \* overlap voxels off the interface plane: count per (body1, body2)
    subvolume_offsets, \* <<offset of subvolume1, offset of subvolume2>>
    pair_merges,   \* the stitcher's merge_list for the pair, by pass, without offsets
    merge_list,    \* the driver's list of all merge edges
    merge_pos,     \* number of edges of merge_list the driver has processed
    body1body2,    \* the driver's label -> final label map
    body2body1,    \* the driver's final label -> set of labels mapped to it
    rdds,          \* the brick collections: id -> [bricks, persisted]
    bricks_id,     \* the collection passed to apply_labelmap_to_bricks
    remapped_id,   \* the collection apply_labelmap_to_bricks returned (0: none yet)
    labelmap_config, \* [file, mapping_pairs, unpersist_original, in_place]
    num_workers,   \* number of worker nodes of the cluster
    worker_task_id, \* Workflow._worker_task_id
    status_files,  \* the status files that exist: <<node, worker_task_id>>
    file_lock,     \* node -> the executor thread holding FileLock(status_filepath), 0: free
    task_pc,       \* node -> executor thread -> position inside task_f
    tasks_left,    \* tasks of the current call not yet handed to an executor
    func_runs,     \* node -> number of executions of func in the current call
    scheduled,     \* node -> a task of the current call ran on the node
    call_no,       \* number of calls of run_on_each_worker so far
    copy_config,   \* the configuration of the CopyGrayscale workflow
    output_bb,     \* the output geometry's bounding-box, as configured, then as filled in
    prepared,      \* the scales whose output instance _prepare_output has set up
    slab_boxes,    \* execute's slab_boxes
    slab_index,    \* execute's position in slab_boxes (from 1)
    scale,         \* the scale the next _process_slab call is for
    slab_wall,     \* execute's slab_wall: what the last _process_slab call returned
    copy_log,      \* the fetches, paddings and writes so far: <<operation, slab, scale>>
    output_voxels, \* the scale-0 voxels written to the output: coordinate -> value
    subvolumes,    \* Segmentor.stitch: the subvolumes, in the order they are collected
    relabeled,     \* per relabelled subvolume: local label -> label after relabel
    grouped_boundaries, \* (roi_id, roi_id) -> the boundary slabs grouped under that key
    subvolume_mappings, \* the keys for which the stitcher has returned its merges
    config_data,   \* Workflow.config_data["options"]: the settings run() reads
    log_server_proc,      \* run()'s log_server_proc: "none", "running", "terminated"
    resource_server_proc, \* run()'s resource_server_proc: "none", "running", "terminated"
    exception      \* the exception run() is unwinding with: "none" or its origin

brick_vars == <<wall, first_wall, first_grid, prev_wall, pad_grid, halo_calls>>
stitch_vars == <<stitch_mode, plane, off_plane, subvolume_offsets, pair_merges,
                 merge_list, merge_pos, body1body2, body2body1>>
labelmap_vars == <<rdds, bricks_id, remapped_id, labelmap_config>>
worker_vars == <<num_workers, worker_task_id, status_files, file_lock, task_pc, tasks_left,
                 func_runs, scheduled, call_no>>
copy_vars == <<copy_config, output_bb, prepared, slab_boxes, slab_index, scale, slab_wall,
               copy_log, output_voxels>>
boundary_vars == <<subvolumes, relabeled, grouped_boundaries, subvolume_mappings>>
run_vars == <<config_data, log_server_proc, resource_server_proc, exception>>
driver_vars == <<boundary_vars, run_vars>>
flow_vars == <<labelmap_vars, worker_vars, copy_vars, driver_vars>>
vars == <<pc, bounding_box, grid, boxes, brick_vars, stitch_vars, flow_vars>>

(* ------------------------------ vectors ------------------------------- *)
Min2(a, b) == IF a <= b THEN a ELSE b
Max2(a, b) == IF a >= b THEN a ELSE b

VecAdd(u, v) == [a \in Axes |-> u[a] + v[a]]
VecSub(u, v) == [a \in Axes |-> u[a] - v[a]]
BoxAdd(box, v) == <<VecAdd(box[1], v), VecAdd(box[2], v)>>
BoxSub(box, v) == <<VecSub(box[1], v), VecSub(box[2], v)>>
BoxShape(box) == VecSub(box[2], box[1])

\* the global coordinates inside a box
BoxPoints(box) ==
    LET lo == CHOOSE x \in {box[1][a] : a \in Axes} : \A a \in Axes : x <= box[1][a]
        hi == CHOOSE x \in {box[2][a] : a \in Axes} : \A a \in Axes : x >= box[2][a]
    IN  {p \in [Axes -> lo..(hi - 1)] : \A a \in Axes : box[1][a] <= p[a] /\ p[a] < box[2][a]}

\* np.maximum of the starts, np.minimum of the stops
box_intersection(box_A, box_B) ==
    << [a \in Axes |-> Max2(box_A[1][a], box_B[1][a])],
       [a \in Axes |-> Min2(box_A[2][a], box_B[2][a])] >>

RECURSIVE ProdFrom(_, _)
ProdFrom(n, k) == IF k > Dim THEN 1 ELSE n[k] * ProdFrom(n, k + 1)

\* ndrange(start, stop, step): the product of range(start[a], stop[a], step[a]),
\* first axis slowest
ndrange(start, stop, step) ==
    LET n == [a \in Axes |-> IF stop[a] > start[a]
                             THEN (stop[a] - start[a] + step[a] - 1) \div step[a]
                             ELSE 0]
    IN  [i \in 1..ProdFrom(n, 1) |->
            [a \in Axes |-> start[a] + (((i - 1) \div ProdFrom(n, a + 1)) % n[a]) * step[a]]]

(* ------------------------------- grids -------------------------------- *)
Grid(block_shape, offset) == [block_shape |-> block_shape, offset |-> offset]

\* mutant: the aligned stop is rounded down instead of up
_boxes_from_grid_no_offset_stop_down(bbox, block_shape) ==
    LET aligned_start == [a \in Axes |-> (bbox[1][a] \div block_shape[a]) * block_shape[a]]
        aligned_stop  == [a \in Axes |-> (bbox[2][a] \div block_shape[a]) * block_shape[a]]
        starts == ndrange(aligned_start, aligned_stop, block_shape)
    IN  [i \in DOMAIN starts |-> <<starts[i], VecAdd(starts[i], block_shape)>>]

_boxes_from_grid_no_offset(bbox, block_shape) ==
    LET aligned_start == [a \in Axes |-> (bbox[1][a] \div block_shape[a]) * block_shape[a]]
        aligned_stop  == [a \in Axes |->
              ((bbox[2][a] + block_shape[a] - 1) \div block_shape[a]) * block_shape[a]]
        starts == ndrange(aligned_start, aligned_stop, block_shape)
    IN  [i \in DOMAIN starts |-> <<starts[i], VecAdd(starts[i], block_shape)>>]

\* mutant: the grid offset is not added back to the yielded boxes
boxes_from_grid_offset_dropped(bbox, g) ==
    IF \A a \in Axes : g.offset[a] = 0
    THEN _boxes_from_grid_no_offset(bbox, g.block_shape)
    ELSE _boxes_from_grid_no_offset(BoxSub(bbox, g.offset), g.block_shape)

boxes_from_grid(bbox, g) ==
    IF \A a \in Axes : g.offset[a] = 0
    THEN _boxes_from_grid_no_offset(bbox, g.block_shape)
    ELSE LET shifted == _boxes_from_grid_no_offset(BoxSub(bbox, g.offset), g.block_shape)
         IN  [i \in DOMAIN shifted |-> BoxAdd(shifted[i], g.offset)]

clipped_boxes_from_grid(bbox, g) ==
    LET bs == boxes_from_grid(bbox, g)
    IN  [i \in DOMAIN bs |-> box_intersection(bs[i], bbox)]

(* ------------------------------ volumes ------------------------------- *)
ZeroVec == [a \in Axes |-> 0]
LocalIdx(shape) == BoxPoints(<<ZeroVec, shape>>)

\* Voxel sources.  Every global coordinate holds a distinct non-zero value, and
\* the padding source differs from the brick source at every coordinate, so a
\* voxel that is moved, dropped, zero-filled or taken from the wrong source
\* shows in the data.
\* the "sparse" source is zero except on every SparsePeriod-th plane of the last axis
SparsePeriod == 4
EncShift == MaxNeg + 2 * MaxBlock + 2 * MaxPadBlock
EncBase == EncShift + MaxCoord + 2 * MaxBlock + 2 * MaxPadBlock + 1
RECURSIVE EncFrom(_, _)
EncFrom(p, k) == IF k > Dim THEN 0 ELSE (p[k] + EncShift) + EncBase * EncFrom(p, k + 1)
AccessorValue(src, p) ==
    IF src = "zeros" THEN 0
    ELSE IF src = "sparse"
    THEN (IF p[Dim] % SparsePeriod = SparsePeriod - 1 THEN 1 + EncFrom(p, 1) ELSE 0)
    ELSE IF src = "source" THEN 1 + EncFrom(p, 1)
    ELSE 1 + EncFrom(p, 1) + EncBase * EncFrom([a \in Axes |-> EncBase], 1)

\* f(box) -> ndarray of the box's shape
volume_accessor_func(src, box) ==
    [shape |-> BoxShape(box),
     data  |-> [i \in LocalIdx(BoxShape(box)) |-> AccessorValue(src, VecAdd(i, box[1]))]]

\* volume[box_to_slicing(*box)]
extract_subvol(vol, box) ==
    [shape |-> BoxShape(box),
     data  |-> [i \in LocalIdx(BoxShape(box)) |-> vol.data[VecAdd(i, box[1])]]]

(* ------------------------------- bricks ------------------------------- *)
Brick(logical_box, physical_box, volume) ==
    [logical_box |-> logical_box, physical_box |-> physical_box, volume |-> volume]

\* the three assertions of Brick.__init__
BrickAsserts(b) ==
    /\ BoxShape(b.physical_box) = b.volume.shape
    /\ \A a \in Axes : b.physical_box[1][a] >= b.logical_box[1][a]
    /\ \A a \in Axes : b.physical_box[2][a] <= b.logical_box[2][a]

generate_bricks_from_volume_source(bbox, g, src) ==
    LET logical_boxes == boxes_from_grid(bbox, g)
    IN  [i \in DOMAIN logical_boxes |->
            LET physical_box == box_intersection(logical_boxes[i], bbox)
            IN  Brick(logical_boxes[i], physical_box, volume_accessor_func(src, physical_box))]

(* ------------------------------ re-grid ------------------------------- *)
\* mutant: a fragment is keyed by its own box instead of its new logical box
split_brick_keyed_by_split_box(new_grid, original_brick) ==
    LET new_logical_boxes == boxes_from_grid(original_brick.physical_box, new_grid)
    IN  [i \in DOMAIN new_logical_boxes |->
            LET new_logical_box == new_logical_boxes[i]
                split_box == box_intersection(new_logical_box, original_brick.physical_box)
                split_box_internal == BoxSub(split_box, original_brick.physical_box[1])
                fragment_vol == extract_subvol(original_brick.volume, split_box_internal)
            IN  <<split_box, Brick(new_logical_box, split_box, fragment_vol)>>]

\* mutant: the fragment's data is cut from the start of the brick's volume
split_brick_from_volume_start(new_grid, original_brick) ==
    LET new_logical_boxes == boxes_from_grid(original_brick.physical_box, new_grid)
    IN  [i \in DOMAIN new_logical_boxes |->
            LET new_logical_box == new_logical_boxes[i]
                split_box == box_intersection(new_logical_box, original_brick.physical_box)
                split_box_internal == <<ZeroVec, BoxShape(split_box)>>
                fragment_vol == extract_subvol(original_brick.volume, split_box_internal)
            IN  <<new_logical_box, Brick(new_logical_box, split_box, fragment_vol)>>]

\* mutant: the loop over the new logical boxes stops after the first one
split_brick_first_only(new_grid, original_brick) ==
    LET new_logical_boxes == boxes_from_grid(original_brick.physical_box, new_grid)
        first_boxes == SubSeq(new_logical_boxes, 1, Min2(1, Len(new_logical_boxes)))
    IN  [i \in DOMAIN first_boxes |->
            LET new_logical_box == new_logical_boxes[i]
                split_box == box_intersection(new_logical_box, original_brick.physical_box)
                split_box_internal == BoxSub(split_box, original_brick.physical_box[1])
                fragment_vol == extract_subvol(original_brick.volume, split_box_internal)
            IN  <<new_logical_box, Brick(new_logical_box, split_box, fragment_vol)>>]

\* [(key, fragment), ...] with key = box_as_tuple(new_logical_box)
split_brick(new_grid, original_brick) ==
    LET new_logical_boxes == boxes_from_grid(original_brick.physical_box, new_grid)
    IN  [i \in DOMAIN new_logical_boxes |->
            LET new_logical_box == new_logical_boxes[i]
                split_box == box_intersection(new_logical_box, original_brick.physical_box)
                split_box_internal == BoxSub(split_box, original_brick.physical_box[1])
                fragment_vol == extract_subvol(original_brick.volume, split_box_internal)
            IN  <<new_logical_box, Brick(new_logical_box, split_box, fragment_vol)>>]

RECURSIVE flat_map_split(_, _)
flat_map_split(new_grid, bricks) ==
    IF bricks = <<>> THEN <<>>
    ELSE split_brick(new_grid, Head(bricks)) \o flat_map_split(new_grid, Tail(bricks))

RECURSIVE SortedSeq(_)
SortedSeq(S) ==
    IF S = {} THEN <<>>
    ELSE LET m == CHOOSE x \in S : \A y \in S : x <= y
         IN  <<m>> \o SortedSeq(S \ {m})

\* [(key, [values])]: keys in order of first appearance, values in order
group_by_key(pairs) ==
    LET first == SortedSeq({i \in DOMAIN pairs :
                                \A j \in 1..(i - 1) : pairs[j][1] # pairs[i][1]})
    IN  [k \in DOMAIN first |->
            LET key == pairs[first[k]][1]
                HasKey(x) == x[1] = key
                mine == SelectSeq(pairs, HasKey)
            IN  <<key, [n \in DOMAIN mine |-> mine[n][2]]>>]

\* mutant: the extent of the first fragment is taken for the extent of all
final_physical_box_of_first(fragments) == fragments[1].physical_box

final_physical_box(fragments) ==
    << [a \in Axes |-> CHOOSE x \in {fragments[k].physical_box[1][a] : k \in DOMAIN fragments} :
                         \A k \in DOMAIN fragments : x <= fragments[k].physical_box[1][a]],
       [a \in Axes |-> CHOOSE x \in {fragments[k].physical_box[2][a] : k \in DOMAIN fragments} :
                         \A k \in DOMAIN fragments : x >= fragments[k].physical_box[2][a]] >>

\* the assertions of assemble_brick_fragments
AssembleAsserts(fragments) ==
    /\ \A k \in DOMAIN fragments : fragments[k].logical_box = fragments[1].logical_box
    /\ \A a \in Axes :
          /\ final_physical_box(fragments)[1][a] >= fragments[1].logical_box[1][a]
          /\ final_physical_box(fragments)[2][a] <= fragments[1].logical_box[2][a]

\* mutant: the final volume starts as ones instead of zeros
assemble_brick_fragments_ones(fragments) ==
    LET final_logical_box == fragments[1].logical_box
        fpb == final_physical_box(fragments)
        final_volume ==
            [shape |-> BoxShape(fpb),
             data  |-> [i \in LocalIdx(BoxShape(fpb)) |->
                 LET p == VecAdd(i, fpb[1])
                     writers == {k \in DOMAIN fragments : p \in BoxPoints(fragments[k].physical_box)}
                 IN  IF writers = {} THEN 1
                     ELSE LET last == CHOOSE k \in writers : \A j \in writers : j <= k
                          IN  fragments[last].volume.data[VecSub(p, fragments[last].physical_box[1])]]]
    IN  Brick(final_logical_box, fpb, final_volume)

\* zeros, then every fragment written at its place, in order
assemble_brick_fragments(fragments) ==
    LET final_logical_box == fragments[1].logical_box
        fpb == final_physical_box(fragments)
        final_volume ==
            [shape |-> BoxShape(fpb),
             data  |-> [i \in LocalIdx(BoxShape(fpb)) |->
                 LET p == VecAdd(i, fpb[1])
                     writers == {k \in DOMAIN fragments : p \in BoxPoints(fragments[k].physical_box)}
                 IN  IF writers = {} THEN 0
                     ELSE LET last == CHOOSE k \in writers : \A j \in writers : j <= k
                          IN  fragments[last].volume.data[VecSub(p, fragments[last].physical_box[1])]]]
    IN  Brick(final_logical_box, fpb, final_volume)

\* [(logical_box, Brick), ...]
realign_bricks_to_new_grid(new_grid, original_bricks) ==
    LET grouped == group_by_key(flat_map_split(new_grid, original_bricks))
    IN  [k \in DOMAIN grouped |-> <<grouped[k][1], assemble_brick_fragments(grouped[k][2])>>]

\* no assertion of split_brick's or assemble_brick_fragments' Brick(...) fires
RealignAsserts(new_grid, original_bricks) ==
    LET pairs == flat_map_split(new_grid, original_bricks)
        grouped == group_by_key(pairs)
    IN  /\ \A n \in DOMAIN pairs : BrickAsserts(pairs[n][2])
        /\ \A k \in DOMAIN grouped :
              /\ AssembleAsserts(grouped[k][2])
              /\ BrickAsserts(assemble_brick_fragments(grouped[k][2]))

Values(pairs) == [k \in DOMAIN pairs |-> pairs[k][2]]

(* ------------------------------ padding ------------------------------- *)
\* mutant: a halo box spans the original extent on the other axes, not the padded one
RECURSIVE halo_boxes_from_orig_extent(_, _, _)
halo_boxes_from_orig_extent(axis, orig_box, padded_box) ==
    IF axis > Dim THEN <<>>
    ELSE (IF orig_box[1][axis] # padded_box[1][axis]
          THEN << <<[orig_box[1] EXCEPT ![axis] = padded_box[1][axis]],
                    [orig_box[2] EXCEPT ![axis] = orig_box[1][axis]]>> >>
          ELSE <<>>)
      \o (IF orig_box[2][axis] # padded_box[2][axis]
          THEN << <<[orig_box[1] EXCEPT ![axis] = orig_box[2][axis]],
                    [orig_box[2] EXCEPT ![axis] = padded_box[2][axis]]>> >>
          ELSE <<>>)
      \o halo_boxes_from_orig_extent(axis + 1, orig_box, padded_box)

\* the halo boxes, axis by axis, leading before trailing
RECURSIVE halo_boxes_from(_, _, _)
halo_boxes_from(axis, orig_box, padded_box) ==
    IF axis > Dim THEN <<>>
    ELSE (IF orig_box[1][axis] # padded_box[1][axis]
          THEN << <<padded_box[1], [padded_box[2] EXCEPT ![axis] = orig_box[1][axis]]>> >>
          ELSE <<>>)
      \o (IF orig_box[2][axis] # padded_box[2][axis]
          THEN << <<[padded_box[1] EXCEPT ![axis] = orig_box[2][axis]], padded_box[2]>> >>
          ELSE <<>>)
      \o halo_boxes_from(axis + 1, orig_box, padded_box)

\* mutant: the stop of the padded box is rounded down instead of up
padded_box_of_stop_down(padding_grid, brick) ==
    LET block_shape == padding_grid.block_shape
        offset_physical_box == BoxSub(brick.physical_box, padding_grid.offset)
        offset_padded_box ==
            << [a \in Axes |-> (offset_physical_box[1][a] \div block_shape[a]) * block_shape[a]],
               [a \in Axes |-> (offset_physical_box[2][a] \div block_shape[a]) * block_shape[a]] >>
    IN  BoxAdd(offset_padded_box, padding_grid.offset)

\* mutant: the stop is rounded up with + block_shape instead of + block_shape - 1
padded_box_of_extra_block(padding_grid, brick) ==
    LET block_shape == padding_grid.block_shape
        offset_physical_box == BoxSub(brick.physical_box, padding_grid.offset)
        offset_padded_box ==
            << [a \in Axes |-> (offset_physical_box[1][a] \div block_shape[a]) * block_shape[a]],
               [a \in Axes |-> ((offset_physical_box[2][a] + block_shape[a]) \div block_shape[a])
                                   * block_shape[a]] >>
    IN  BoxAdd(offset_padded_box, padding_grid.offset)

padded_box_of(padding_grid, brick) ==
    LET block_shape == padding_grid.block_shape
        offset_physical_box == BoxSub(brick.physical_box, padding_grid.offset)
        offset_padded_box ==
            << [a \in Axes |-> (offset_physical_box[1][a] \div block_shape[a]) * block_shape[a]],
               [a \in Axes |-> ((offset_physical_box[2][a] + block_shape[a] - 1)
                                    \div block_shape[a]) * block_shape[a]] >>
    IN  BoxAdd(offset_padded_box, padding_grid.offset)

\* mutant: a brick counts as aligned only when it fills its logical box
already_aligned_to_logical_box(padding_grid, brick) ==
    brick.physical_box = brick.logical_box

\* (offset_physical_box % block_shape == 0).all()
already_aligned(padding_grid, brick) ==
    LET offset_physical_box == BoxSub(brick.physical_box, padding_grid.offset)
    IN  \A a \in Axes : /\ offset_physical_box[1][a] % padding_grid.block_shape[a] = 0
                        /\ offset_physical_box[2][a] % padding_grid.block_shape[a] = 0

\* [ok, brick, calls]: ok is FALSE when an assertion fires, calls lists the
\* boxes passed to volume_accessor_func, in order
pad_brick_data_from_volume_source(padding_grid, src, brick) ==
    LET block_shape == padding_grid.block_shape
        offset_logical_box == BoxSub(brick.logical_box, padding_grid.offset)
        padded_box == padded_box_of(padding_grid, brick)
        orig_box == brick.physical_box
        halo_boxes == halo_boxes_from(1, orig_box, padded_box)
        padded_volume ==
            [shape |-> BoxShape(padded_box),
             data  |-> [i \in LocalIdx(BoxShape(padded_box)) |->
                 LET p == VecAdd(i, padded_box[1])
                     writers == {k \in DOMAIN halo_boxes : p \in BoxPoints(halo_boxes[k])}
                 IN  IF writers # {}
                     THEN LET last == CHOOSE k \in writers : \A j \in writers : j <= k
                          IN  volume_accessor_func(src, halo_boxes[last])
                                  .data[VecSub(p, halo_boxes[last][1])]
                     ELSE IF p \in BoxPoints(orig_box)
                          THEN brick.volume.data[VecSub(p, orig_box[1])]
                          ELSE 0]]
        failed == [ok |-> FALSE, brick |-> brick, calls |-> <<>>]
    IN  IF ~(\A a \in Axes : /\ offset_logical_box[1][a] % block_shape[a] = 0
                             /\ offset_logical_box[2][a] % block_shape[a] = 0)
        THEN failed
        ELSE IF already_aligned(padding_grid, brick)
        THEN [ok |-> TRUE, brick |-> brick, calls |-> <<>>]
        ELSE IF ~(\A a \in Axes : /\ padded_box[1][a] >= brick.logical_box[1][a]
                                  /\ padded_box[2][a] <= brick.logical_box[2][a])
        THEN failed
        ELSE IF halo_boxes = <<>>
        THEN failed
        ELSE LET padded == Brick(brick.logical_box, padded_box, padded_volume)
             IN  [ok |-> BrickAsserts(padded), brick |-> padded, calls |-> halo_boxes]

(* ------------------------------ inputs -------------------------------- *)
\* boxes with start <= stop on every axis (zero-volume boxes included)
AllBoxes ==
    {b \in [Axes -> Coords] \X [Axes -> Coords] : \A a \in Axes : b[1][a] <= b[2][a]}
AllGrids ==
    {Grid(s, o) : s \in [Axes -> 1..MaxBlock], o \in [Axes -> 0..MaxOffset]}

NoBox == << [a \in Axes |-> 0], [a \in Axes |-> 0] >>
NoGrid == Grid([a \in Axes |-> 1], [a \in Axes |-> 0])

\* the label-map variables while no label map is applied
NoLabelmap ==
    /\ rdds = <<>>
    /\ bricks_id = 0
    /\ remapped_id = 0
    /\ labelmap_config = <<>>

\* the worker variables while run_on_each_worker is not used
NoWorkers ==
    /\ num_workers = 0
    /\ worker_task_id = 0
    /\ status_files = {}
    /\ file_lock = <<>>
    /\ task_pc = <<>>
    /\ tasks_left = 0
    /\ func_runs = <<>>
    /\ scheduled = <<>>
    /\ call_no = 0

\* the copy variables while CopyGrayscale does not run
NoCopy ==
    /\ copy_config = <<>>
    /\ output_bb = NoBox
    /\ prepared = {}
    /\ slab_boxes = <<>>
    /\ slab_index = 0
    /\ scale = 0
    /\ slab_wall = <<>>
    /\ copy_log = <<>>
    /\ output_voxels = <<>>

\* the offsetting and boundary variables while Segmentor.stitch does not run
NoBoundaries ==
    /\ subvolumes = <<>>
    /\ relabeled = <<>>
    /\ grouped_boundaries = <<>>
    /\ subvolume_mappings = {}

\* the variables of Workflow.run while it is not called
NoRun ==
    /\ config_data = <<>>
    /\ log_server_proc = "none"
    /\ resource_server_proc = "none"
    /\ exception = "none"

NoDriver == NoBoundaries /\ NoRun

\* the workflow variables while no workflow runs
NoFlow == NoLabelmap /\ NoWorkers /\ NoCopy /\ NoDriver

\* the stitching variables while no stitching runs
NoStitch ==
    /\ stitch_mode = 0
    /\ plane = <<>>
    /\ off_plane = <<>>
    /\ subvolume_offsets = <<0, 0>>
    /\ pair_merges = <<>>
    /\ merge_list = <<>>
    /\ merge_pos = 0
    /\ body1body2 = <<>>
    /\ body2body1 = <<>>

\* the brick variables while no brick pipeline runs
NoBricks ==
    /\ bounding_box = NoBox
    /\ grid = NoGrid
    /\ boxes = <<>>
    /\ wall = <<>>
    /\ first_wall = <<>>
    /\ first_grid = NoGrid
    /\ prev_wall = <<>>
    /\ pad_grid = NoGrid
    /\ halo_calls = <<>>

(* --------------------- grid enumeration (SpecGrid) -------------------- *)
InitGrid ==
    /\ pc = "grid"
    /\ bounding_box \in AllBoxes
    /\ grid \in AllGrids
    /\ boxes = <<>>
    /\ wall = <<>>
    /\ first_wall = <<>>
    /\ first_grid = NoGrid
    /\ prev_wall = <<>>
    /\ pad_grid = NoGrid
    /\ halo_calls = <<>>
    /\ NoStitch
    /\ NoFlow

BoxesFromGrid ==
    /\ pc = "grid"
    /\ boxes' = boxes_from_grid(bounding_box, grid)
    /\ pc' = "unclipped"
    /\ UNCHANGED <<bounding_box, grid, brick_vars, stitch_vars, flow_vars>>

ClippedBoxesFromGrid ==
    /\ pc = "grid"
    /\ boxes' = clipped_boxes_from_grid(bounding_box, grid)
    /\ pc' = "clipped"
    /\ UNCHANGED <<bounding_box, grid, brick_vars, stitch_vars, flow_vars>>

NextGrid == BoxesFromGrid \/ ClippedBoxesFromGrid

SpecGrid == InitGrid /\ [][NextGrid]_vars

(* ----------------------- brick pipeline (Spec) ------------------------ *)
InitBricks ==
    /\ pc = "start"
    /\ bounding_box = NoBox
    /\ grid = NoGrid
    /\ boxes = <<>>
    /\ wall = <<>>
    /\ first_wall = <<>>
    /\ first_grid = NoGrid
    /\ prev_wall = <<>>
    /\ pad_grid = NoGrid
    /\ halo_calls = <<>>
    /\ NoStitch
    /\ NoFlow

\* bricks = generate_bricks_from_volume_source(bounding_box, grid, accessor)
GenerateFrom(bboxes, grids) ==
    /\ pc = "start"
    /\ \E bbox \in bboxes, g \in grids :
          LET bricks == generate_bricks_from_volume_source(bbox, g, "source")
          IN  /\ bounding_box' = bbox
              /\ grid' = g
              /\ IF \A i \in DOMAIN bricks : BrickAsserts(bricks[i])
                 THEN wall' = bricks /\ pc' = "wall"
                 ELSE wall' = wall /\ pc' = "failed"
    /\ UNCHANGED <<boxes, first_wall, first_grid, prev_wall, pad_grid, halo_calls, stitch_vars, flow_vars>>

Generate == GenerateFrom(AllBoxes, AllGrids)

\* a brick is dropped from the list before it is re-gridded
Drop ==
    /\ pc = "wall"
    /\ Len(wall) >= 2
    /\ \E i \in DOMAIN wall :
          wall' = SubSeq(wall, 1, i - 1) \o SubSeq(wall, i + 1, Len(wall))
    /\ pc' = "sparse"
    /\ UNCHANGED <<bounding_box, grid, boxes, first_wall, first_grid, prev_wall,
                   pad_grid, halo_calls, stitch_vars, flow_vars>>

\* wall = realign_bricks_to_new_grid(new_grid, wall)
RealignTo(new_grid, next_pc) ==
    /\ prev_wall' = wall
    /\ IF RealignAsserts(new_grid, wall)
       THEN /\ wall' = Values(realign_bricks_to_new_grid(new_grid, wall))
            /\ grid' = new_grid
            /\ pc' = next_pc
       ELSE /\ pc' = "failed"
            /\ UNCHANGED <<wall, grid>>
    /\ UNCHANGED <<bounding_box, boxes, pad_grid, halo_calls, stitch_vars, flow_vars>>

Realign ==
    /\ pc \in {"wall", "sparse"}
    /\ first_wall' = wall
    /\ first_grid' = grid
    /\ \E new_grid \in AllGrids : RealignTo(new_grid, "regrid")

RealignBack ==
    /\ pc = "regrid"
    /\ UNCHANGED <<first_wall, first_grid>>
    /\ RealignTo(first_grid, "back")

\* wall = map(pad_brick_data_from_volume_source(padding_grid, accessor), wall)
PadWith(padding_grid, from_pc, next_pc, fail_pc) ==
    /\ pc = from_pc
    /\ LET padded == [i \in DOMAIN wall |->
                        pad_brick_data_from_volume_source(padding_grid, "padding", wall[i])]
       IN  /\ prev_wall' = wall
           /\ pad_grid' = padding_grid
           /\ IF \A i \in DOMAIN padded : padded[i].ok
              THEN /\ wall' = [i \in DOMAIN padded |-> padded[i].brick]
                   /\ halo_calls' = [i \in DOMAIN padded |-> padded[i].calls]
                   /\ pc' = next_pc
              ELSE /\ pc' = fail_pc
                   /\ UNCHANGED <<wall, halo_calls>>
    /\ UNCHANGED <<bounding_box, grid, boxes, first_wall, first_grid, stitch_vars, flow_vars>>

Pad == \E padding_grid \in AllGrids : PadWith(padding_grid, "wall", "padded", "failed")

PadAgain == PadWith(pad_grid, "padded", "padded2", "failed_again")

Next == Generate \/ Drop \/ Realign \/ RealignBack \/ Pad \/ PadAgain

Spec == InitBricks /\ [][Next]_vars

(* ------------------- padding with wider grids (SpecPad) --------------- *)
PadCoords == 0..MaxPadCoord
PadBoxes ==
    {b \in [Axes -> PadCoords] \X [Axes -> PadCoords] : \A a \in Axes : b[1][a] <= b[2][a]}
PadGrids ==
    {Grid(s, o) : s \in [Axes -> 1..MaxPadBlock], o \in [Axes -> 0..MaxOffset]}

GeneratePad == GenerateFrom(PadBoxes, PadGrids)

PadWide == \E padding_grid \in PadGrids : PadWith(padding_grid, "wall", "padded", "failed")

NextPad == GeneratePad \/ PadWide \/ PadAgain

SpecPad == InitBricks /\ [][NextPad]_vars

(* ============================== claims ================================ *)
VoxelAt(b, p) == b.volume.data[VecSub(p, b.physical_box[1])]
PhysicalPoints(b) == BoxPoints(b.physical_box)
NonEmptyBox(box) == \A a \in Axes : box[1][a] < box[2][a]
BoxInside(inner, outer) ==
    \A a \in Axes : outer[1][a] <= inner[1][a] /\ inner[2][a] <= outer[2][a]
DisjointPhysical(bricks) ==
    \A i, j \in DOMAIN bricks :
        i # j => PhysicalPoints(bricks[i]) \cap PhysicalPoints(bricks[j]) = {}
NonEmptyPhysical(bricks) ==
    \A i \in DOMAIN bricks : NonEmptyBox(bricks[i].physical_box)
BrickSet(bricks) == {bricks[i] : i \in DOMAIN bricks}
\* the wall holds every brick generated over its bounding box
CompleteWall(bricks, g) ==
    bricks = generate_bricks_from_volume_source(bounding_box, g, "source")

\* C1 as stated: after re-gridding a wall W (non-empty, pairwise disjoint
\* physical boxes) to any grid and back, the result holds exactly one brick
\* per logical box of W, with W's physical box and W's voxels.
C1_RoundTripExact ==
    (pc = "back" /\ NonEmptyPhysical(first_wall) /\ DisjointPhysical(first_wall))
        => /\ Len(wall) = Len(first_wall)
           /\ BrickSet(wall) = BrickSet(first_wall)

\* C1 amended: the round trip yields, for every logical box of W, exactly one
\* brick; its physical box contains W's, it holds W's voxel at every coordinate
\* W covers and zero at every coordinate W does not cover; and when W is the
\* complete wall generated over a bounding box the result holds exactly W's bricks.
C1_RoundTripCoverage ==
    (pc = "back" /\ NonEmptyPhysical(first_wall) /\ DisjointPhysical(first_wall))
        => /\ \A s \in DOMAIN first_wall :
                /\ Cardinality({k \in DOMAIN wall :
                        wall[k].logical_box = first_wall[s].logical_box}) = 1
                /\ \A k \in DOMAIN wall :
                      wall[k].logical_box = first_wall[s].logical_box
                          => /\ BoxInside(first_wall[s].physical_box, wall[k].physical_box)
                             /\ \A p \in PhysicalPoints(first_wall[s]) :
                                   VoxelAt(wall[k], p) = VoxelAt(first_wall[s], p)
           /\ \A k \in DOMAIN wall : \A p \in PhysicalPoints(wall[k]) :
                 (\A s \in DOMAIN first_wall : p \notin PhysicalPoints(first_wall[s]))
                     => VoxelAt(wall[k], p) = 0
           /\ CompleteWall(first_wall, first_grid)
                 => Len(wall) = Len(first_wall) /\ BrickSet(wall) = BrickSet(first_wall)

\* a round trip through a grid that cuts and joins the bricks of W
C1_Witness ==
    /\ pc = "back"
    /\ NonEmptyPhysical(first_wall)
    /\ Len(first_wall) >= 2
    /\ Len(prev_wall) >= 2
    /\ Len(flat_map_split(first_grid, prev_wall)) > Len(prev_wall)
    /\ \E k \in DOMAIN prev_wall : prev_wall[k] \notin BrickSet(first_wall)
    /\ \E s \in DOMAIN first_wall : first_wall[s].physical_box # first_wall[s].logical_box

\* C2: after a re-grid of a wall with pairwise disjoint physical boxes, every
\* coordinate covered by a source brick lies in the physical box of exactly
\* one output brick and holds the source voxel there.
C2_RegridConservesVoxels ==
    (pc \in {"regrid", "back"} /\ DisjointPhysical(prev_wall))
        => \A s \in DOMAIN prev_wall : \A p \in PhysicalPoints(prev_wall[s]) :
              /\ Cardinality({k \in DOMAIN wall : p \in PhysicalPoints(wall[k])}) = 1
              /\ \A k \in DOMAIN wall :
                    p \in PhysicalPoints(wall[k]) => VoxelAt(wall[k], p) = VoxelAt(prev_wall[s], p)

\* a re-grid that both cuts a source brick and joins fragments of several
C2_Witness ==
    /\ pc = "regrid"
    /\ NonEmptyPhysical(prev_wall)
    /\ Len(prev_wall) >= 2
    /\ Len(wall) >= 2
    /\ \E s \in DOMAIN prev_wall : Len(split_brick(grid, prev_wall[s])) >= 2
    /\ Len(flat_map_split(grid, prev_wall)) > Len(wall)

\* C3: after generation and after every re-grid no two bricks of the
\* collection have the same logical box.
C3_OneBrickPerLogicalBox ==
    \A i, j \in DOMAIN wall : i # j => wall[i].logical_box # wall[j].logical_box

\* a re-gridded wall of several bricks, one of them joined from fragments
C3_Witness ==
    /\ pc = "back"
    /\ Len(wall) >= 3
    /\ Len(flat_map_split(grid, prev_wall)) > Len(wall)

\* C5: every brick generated, split off, assembled or padded has its
\* physical box inside its logical box, a volume of the physical box's shape,
\* and a logical box that is one block of the grid it was built for.
BrickIntegrity(b, g) ==
    /\ BoxInside(b.physical_box, b.logical_box)
    /\ b.volume.shape = BoxShape(b.physical_box)
    /\ DOMAIN b.volume.data = LocalIdx(BoxShape(b.physical_box))
    /\ BoxShape(b.logical_box) = g.block_shape
    /\ \A a \in Axes : (b.logical_box[1][a] - g.offset[a]) % g.block_shape[a] = 0

C5_BrickIntegrity ==
    /\ \A i \in DOMAIN wall : BrickIntegrity(wall[i], grid)
    /\ pc \in {"regrid", "back"}
          => LET fragments == flat_map_split(grid, prev_wall)
             IN  \A n \in DOMAIN fragments :
                    /\ fragments[n][1] = fragments[n][2].logical_box
                    /\ BrickIntegrity(fragments[n][2], grid)

\* bricks assembled on a grid with an offset, some of them partly filled
C5_Witness ==
    /\ pc = "regrid"
    /\ Len(wall) >= 2
    /\ \E a \in Axes : grid.offset[a] # 0 /\ grid.block_shape[a] > 1
    /\ \E i \in DOMAIN wall : wall[i].physical_box # wall[i].logical_box
    /\ Len(flat_map_split(grid, prev_wall)) > Len(wall)

\* C4: the boxes yielded by clipped_boxes_from_grid(B, G) are pairwise
\* disjoint and their union is B, for boxes with negative coordinates and
\* grids with or without an offset.
C4_ClippedBoxesTile ==
    pc = "clipped"
        => /\ \A i, j \in DOMAIN boxes :
                 i # j => BoxPoints(boxes[i]) \cap BoxPoints(boxes[j]) = {}
           /\ UNION {BoxPoints(boxes[i]) : i \in DOMAIN boxes} = BoxPoints(bounding_box)

\* several clipped boxes of a box that starts below zero, on a grid with an offset
C4_Witness ==
    /\ pc = "clipped"
    /\ Len(boxes) >= 4
    /\ NonEmptyBox(bounding_box)
    /\ \E a \in Axes : bounding_box[1][a] < 0
    /\ \E a \in Axes : grid.offset[a] # 0
    /\ \E i \in DOMAIN boxes : boxes[i] # boxes_from_grid(bounding_box, grid)[i]

\* C6: padding a padded brick again with the same grid succeeds, returns the
\* same brick and calls the accessor for nothing; a brick whose physical box is
\* already aligned to the padding grid is returned as it is, with no call.
C6_PaddingIdempotent ==
    /\ pc # "failed_again"
    /\ pc = "padded2"
          => /\ wall = prev_wall
             /\ \A i \in DOMAIN wall : halo_calls[i] = <<>>
    /\ pc = "padded"
          => \A i \in DOMAIN wall :
                (\A a \in Axes :
                    /\ (prev_wall[i].physical_box[1][a] - pad_grid.offset[a])
                           % pad_grid.block_shape[a] = 0
                    /\ (prev_wall[i].physical_box[2][a] - pad_grid.offset[a])
                           % pad_grid.block_shape[a] = 0)
                    => wall[i] = prev_wall[i] /\ halo_calls[i] = <<>>

\* a second padding of a brick that the first padding enlarged, short of its
\* logical box
C6_Witness ==
    /\ pc = "padded2"
    /\ \E i \in DOMAIN wall :
          /\ wall[i].physical_box # box_intersection(wall[i].logical_box, bounding_box)
          /\ wall[i].physical_box # wall[i].logical_box

\* C7: a successful padding keeps the logical box, and the new physical box is
\* the old one with its start moved down and its stop moved up to the nearest
\* multiple of the padding block shape counted from the padding offset.
RoundedOut(padded, orig, g) ==
    \A a \in Axes :
        /\ (padded[1][a] - g.offset[a]) % g.block_shape[a] = 0
        /\ padded[1][a] <= orig[1][a]
        /\ orig[1][a] < padded[1][a] + g.block_shape[a]
        /\ (padded[2][a] - g.offset[a]) % g.block_shape[a] = 0
        /\ orig[2][a] <= padded[2][a]
        /\ padded[2][a] - g.block_shape[a] < orig[2][a]

C7_PaddingGeometry ==
    pc = "padded"
        => /\ Len(wall) = Len(prev_wall)
           /\ \A i \in DOMAIN wall :
                 /\ wall[i].logical_box = prev_wall[i].logical_box
                 /\ RoundedOut(wall[i].physical_box, prev_wall[i].physical_box, pad_grid)
                 /\ BoxInside(prev_wall[i].physical_box, wall[i].physical_box)

\* a brick enlarged on a padding grid with an offset, to less than its logical box
C7_Witness ==
    /\ pc = "padded"
    /\ \E i \in DOMAIN wall :
          /\ wall[i].physical_box # prev_wall[i].physical_box
          /\ wall[i].physical_box # wall[i].logical_box
          /\ NonEmptyBox(prev_wall[i].physical_box)
          /\ \E a \in Axes : pad_grid.offset[a] # 0 /\ pad_grid.block_shape[a] > 1

\* C8: in a padded brick every voxel of the original physical box is the
\* original voxel, every other voxel is the accessor's value at that
\* coordinate, and the accessor is called once per side that needs padding (at
\* most two per axis), each time for a box spanning the whole padded extent on
\* the other axes.
HaloSides(padded, orig) ==
    {<<a, "leading">> : a \in {x \in Axes : orig[1][x] # padded[1][x]}}
        \cup {<<a, "trailing">> : a \in {x \in Axes : orig[2][x] # padded[2][x]}}
HaloOfSide(side, padded, orig) ==
    IF side[2] = "leading"
    THEN <<padded[1], [padded[2] EXCEPT ![side[1]] = orig[1][side[1]]]>>
    ELSE <<[padded[1] EXCEPT ![side[1]] = orig[2][side[1]]], padded[2]>>

C8_PaddingData ==
    pc = "padded"
        => \A i \in DOMAIN wall :
              LET padded == wall[i].physical_box
                  orig == prev_wall[i].physical_box
              IN  /\ \A p \in BoxPoints(padded) :
                        VoxelAt(wall[i], p) =
                            IF p \in BoxPoints(orig) THEN VoxelAt(prev_wall[i], p)
                            ELSE AccessorValue("padding", p)
                  /\ Len(halo_calls[i]) <= 2 * Dim
                  /\ Len(halo_calls[i]) = Cardinality(HaloSides(padded, orig))
                  /\ \A side \in HaloSides(padded, orig) :
                        Cardinality({n \in DOMAIN halo_calls[i] :
                            halo_calls[i][n] = HaloOfSide(side, padded, orig)}) = 1

\* a brick padded on both sides of one axis and on some side of another
C8_Witness ==
    /\ pc = "padded"
    /\ \E i \in DOMAIN wall :
          /\ NonEmptyBox(prev_wall[i].physical_box)
          /\ Len(halo_calls[i]) >= 3
          /\ \E a \in Axes : /\ prev_wall[i].physical_box[1][a] # wall[i].physical_box[1][a]
                             /\ prev_wall[i].physical_box[2][a] # wall[i].physical_box[2][a]

(* ============================ Segmentor.stitch ======================== *)
RECURSIVE SumOver(_, _)
SumOver(f, S) ==
    IF S = {} THEN 0
    ELSE LET x == CHOOSE y \in S : TRUE IN f[x] + SumOver(f, S \ {x})

Labels1 == 1..MaxLabel1
Labels2 == 1..MaxLabel2
LabelPairs == Labels1 \X Labels2
\* pairs (label in boundary1, label in boundary2) at one voxel; label 0 is "off"
VoxelPairs == ((0..MaxLabel1) \X (0..MaxLabel2)) \ {<<0, 0>>}

\* numpy.unique of the plane of boundary1 and of boundary2, without label 0
eligible_bodies1 == {b1 \in Labels1 : \E b2 \in 0..MaxLabel2 : plane[<<b1, b2>>] > 0}
eligible_bodies2 == {b2 \in Labels2 : \E b1 \in 0..MaxLabel1 : plane[<<b1, b2>>] > 0}

\* body2body[body2][body1] of the first traversal (all voxels of the overlap)
overlap_of_body2(body2) == [b1 \in Labels1 |-> plane[<<b1, body2>>] + off_plane[<<b1, body2>>]]
\* body2body[body1][body2] of the second traversal
overlap_of_body1(body1) == [b2 \in Labels2 |-> plane[<<body1, b2>>] + off_plane[<<body1, b2>>]]

\* the values bodysave can end with: -1 when no val exceeds hard_lb, else a key
\* with the greatest val (the dictionary's iteration order picks among equals)
bodysave_choices(bodydict) ==
    LET keys == {k \in DOMAIN bodydict : bodydict[k] > 0}
        best == {k \in keys : bodydict[k] > hard_lb /\ \A j \in keys : bodydict[j] <= bodydict[k]}
    IN  IF best = {} THEN {0 - 1} ELSE best

\* every assignment of one of its possible bodysave values to each body of S
RECURSIVE bodysave_functions(_, _)
bodysave_functions(choices, S) ==
    IF S = {} THEN {<<>>}
    ELSE LET k == CHOOSE x \in S : TRUE
         IN  {(k :> v) @@ f : v \in choices[k], f \in bodysave_functions(choices, S \ {k})}

total_val_of(bodydict) == SumOver(bodydict, DOMAIN bodydict)

\* max_val / float(total_val) < conservative_overlap
below_conservative(max_val, total_val) == max_val * 100 < conservative_overlap_pct * total_val
\* max_val / float(total_val) > conservative_overlap and max_val > liberal_lb
aggressive_accept(max_val, total_val) ==
    max_val * 100 > conservative_overlap_pct * total_val /\ max_val > liberal_lb

\* mutant: the first loop records a best match whatever its share of the total
stitcher_first_pass_no_conservative_prune(mode, save1) ==
    LET bodies == IF mode > 0 THEN Labels2 \cap eligible_bodies2 ELSE {}
        found == {body2 \in bodies : save1[body2] # 0 - 1}
        max_val(body2) == overlap_of_body2(body2)[save1[body2]]
        total_val(body2) == total_val_of(overlap_of_body2(body2))
        added == {body2 \in found :
                     mode = 3 /\ aggressive_accept(max_val(body2), total_val(body2))}
    IN  << {<<save1[body2], body2>> : body2 \in added},
           {<<save1[body2], body2>> : body2 \in added},
           {<<save1[body2], body2>> : body2 \in found \ added} >>

\* first loop over body2body.items(): <<merge_list, retired_list, mutual_list>>,
\* mutual_list as the set of its (bodysave, body2) entries
stitcher_first_pass(mode, save1) ==
    LET bodies == IF mode > 0 THEN Labels2 \cap eligible_bodies2 ELSE {}
        found == {body2 \in bodies : save1[body2] # 0 - 1}
        max_val(body2) == overlap_of_body2(body2)[save1[body2]]
        total_val(body2) == total_val_of(overlap_of_body2(body2))
        pruned == {body2 \in found : mode = 1 /\ below_conservative(max_val(body2), total_val(body2))}
        added == {body2 \in found \ pruned :
                     mode = 3 /\ aggressive_accept(max_val(body2), total_val(body2))}
    IN  << {<<save1[body2], body2>> : body2 \in added},
           {<<save1[body2], body2>> : body2 \in added},
           {<<save1[body2], body2>> : body2 \in (found \ pruned) \ added} >>

\* mutant: the second loop appends every best match without asking mutual_list
stitcher_second_pass_not_mutual(mode, save2, retired_list, mutual_list) ==
    LET bodies == IF mode > 0 THEN Labels1 \cap eligible_bodies1 ELSE {}
        considered == {body1 \in bodies : <<body1, save2[body1]>> \notin retired_list
                                          /\ save2[body1] # 0 - 1}
        max_val(body1) == overlap_of_body1(body1)[save2[body1]]
        total_val(body1) == total_val_of(overlap_of_body1(body1))
        pruned == {body1 \in considered :
                      mode = 1 /\ below_conservative(max_val(body1), total_val(body1))}
    IN  {<<body1, save2[body1]>> : body1 \in considered \ pruned}

\* mutant: in mode 3 the second loop appends only on the aggressive test
stitcher_second_pass_aggressive_only(mode, save2, retired_list, mutual_list) ==
    LET bodies == IF mode > 0 THEN Labels1 \cap eligible_bodies1 ELSE {}
        considered == {body1 \in bodies : <<body1, save2[body1]>> \notin retired_list
                                          /\ save2[body1] # 0 - 1}
        max_val(body1) == overlap_of_body1(body1)[save2[body1]]
        total_val(body1) == total_val_of(overlap_of_body1(body1))
        pruned == {body1 \in considered :
                      mode = 1 /\ below_conservative(max_val(body1), total_val(body1))}
        added == {body1 \in considered \ pruned :
                     IF mode = 3 THEN aggressive_accept(max_val(body1), total_val(body1))
                     ELSE <<body1, save2[body1]>> \in mutual_list}
    IN  {<<body1, save2[body1]>> : body1 \in added}

\* second loop over body2body.items(): the edges appended to merge_list
stitcher_second_pass(mode, save2, retired_list, mutual_list) ==
    LET bodies == IF mode > 0 THEN Labels1 \cap eligible_bodies1 ELSE {}
        considered == {body1 \in bodies : <<body1, save2[body1]>> \notin retired_list
                                          /\ save2[body1] # 0 - 1}
        max_val(body1) == overlap_of_body1(body1)[save2[body1]]
        total_val(body1) == total_val_of(overlap_of_body1(body1))
        pruned == {body1 \in considered :
                      mode = 1 /\ below_conservative(max_val(body1), total_val(body1))}
        added == {body1 \in considered \ pruned :
                     \/ mode = 3 /\ aggressive_accept(max_val(body1), total_val(body1))
                     \/ <<body1, save2[body1]>> \in mutual_list}
    IN  {<<body1, save2[body1]>> : body1 \in added}

\* mutant: the second loop does not consult retired_list
stitcher_without_retired_list(mode, save1, save2, offsets) ==
    LET first == stitcher_first_pass(mode, save1)
        second == stitcher_second_pass(mode, save2, {}, first[3])
    IN  [pass1 |-> first[1],
         pass2 |-> second,
         returned |-> {<<m[1] + offsets[1], m[2] + offsets[2]>> : m \in first[1] \cup second}]

\* [pass1, pass2, returned]: the edges appended by each loop, and the returned
\* merge_list with the subvolume offsets added
stitcher(mode, save1, save2, offsets) ==
    LET first == stitcher_first_pass(mode, save1)
        second == stitcher_second_pass(mode, save2, first[2], first[3])
    IN  [pass1 |-> first[1],
         pass2 |-> second,
         returned |-> {<<m[1] + offsets[1], m[2] + offsets[2]>> : m \in first[1] \cup second}]

\* voxel counts of a pair on the interface plane and in the rest of the overlap
PlaneCounts == {0, hard_lb}
OffPlaneCounts == {0, hard_lb + 10}

InitStitcher ==
    /\ pc = "boundaries"
    /\ NoBricks
    /\ NoFlow
    /\ stitch_mode \in 0..3
    /\ plane \in [VoxelPairs -> PlaneCounts]
    /\ off_plane \in [LabelPairs -> OffPlaneCounts]
    \* subvolume1 is collected first and has max_id = MaxLabel1
    /\ subvolume_offsets = <<0, MaxLabel1>>
    /\ pair_merges = <<>>
    /\ merge_list = <<>>
    /\ merge_pos = 0
    /\ body1body2 = <<>>
    /\ body2body1 = <<>>

\* stitcher(key_boundary) for one neighbor pair
Stitch ==
    /\ pc = "boundaries"
    /\ \E save1 \in bodysave_functions([b2 \in Labels2 |-> bodysave_choices(overlap_of_body2(b2))],
                                        Labels2) :
       \E save2 \in bodysave_functions([b1 \in Labels1 |-> bodysave_choices(overlap_of_body1(b1))],
                                        Labels1) :
          pair_merges' = stitcher(stitch_mode, save1, save2, subvolume_offsets)
    /\ pc' = "stitched"
    /\ UNCHANGED <<bounding_box, grid, boxes, brick_vars, flow_vars, stitch_mode, plane, off_plane,
                   subvolume_offsets, merge_list, merge_pos, body1body2, body2body1>>

NextStitcher == Stitch

SpecStitcher == InitStitcher /\ [][NextStitcher]_vars

\* voxel counts of a pair outside the plane when the overlap slab is large
LargeOffPlaneCounts == {0, hard_lb + 10, liberal_lb + 1}

\* inputs with large overlaps; every voxel of the interface plane carries a
\* non-zero label in both slabs
InitLargeOverlap ==
    /\ pc = "boundaries"
    /\ NoBricks
    /\ NoFlow
    /\ stitch_mode \in 0..3
    /\ plane \in {[p \in VoxelPairs |-> IF p \in LabelPairs THEN labelled[p] ELSE 0] :
                      labelled \in [LabelPairs -> PlaneCounts]}
    /\ off_plane \in [LabelPairs -> LargeOffPlaneCounts]
    /\ subvolume_offsets = <<0, MaxLabel1>>
    /\ pair_merges = <<>>
    /\ merge_list = <<>>
    /\ merge_pos = 0
    /\ body1body2 = <<>>
    /\ body2body1 = <<>>

SpecLargeOverlap == InitLargeOverlap /\ [][NextStitcher]_vars

(* ------------------------ the driver's global merge ------------------- *)
MergeLabels == 1..MaxMergeLabel
MergeEdges == {e \in MergeLabels \X MergeLabels : e[1] # e[2]}

\* Edge lists the stitchers can return: an edge joins a label of the subvolume
\* with the smaller roi_id (first) to a label of the one with the larger
\* roi_id (second), and no edge is listed twice.
MergeLists ==
    {l \in UNION {[1..n -> MergeEdges] : n \in 0..MaxEdges} :
        /\ \A i, j \in DOMAIN l : i # j => l[i] # l[j]
        /\ \E roi_id \in [MergeLabels -> 1..MaxMergeLabel] :
              \A i \in DOMAIN l : roi_id[l[i][1]] < roi_id[l[i][2]]}

Put(f, k, v) == [x \in DOMAIN f \cup {k} |-> IF x = k THEN v ELSE f[x]]

InitMerge ==
    /\ pc = "merging"
    /\ NoBricks
    /\ NoFlow
    /\ stitch_mode = 0
    /\ plane = <<>>
    /\ off_plane = <<>>
    /\ subvolume_offsets = <<0, 0>>
    /\ pair_merges = <<>>
    /\ merge_list \in MergeLists
    /\ merge_pos = 0
    /\ body1body2 = <<>>
    /\ body2body1 = <<>>

\* mutant: the labels already mapped to body1 are not re-pointed to body2
MergeStep_children_left ==
    /\ pc = "merging"
    /\ merge_pos < Len(merge_list)
    /\ LET merger == merge_list[merge_pos + 1]
           body1 == IF merger[1] \in DOMAIN body1body2 THEN body1body2[merger[1]] ELSE merger[1]
           body2 == IF merger[2] \in DOMAIN body1body2 THEN body1body2[merger[2]] ELSE merger[2]
           old2 == IF body2 \in DOMAIN body2body1 THEN body2body1[body2] ELSE {}
       IN  /\ body2body1' = Put(body2body1, body2, old2 \cup {body1})
           /\ body1body2' = Put(body1body2, body1, body2)
    /\ merge_pos' = merge_pos + 1
    /\ UNCHANGED <<pc, bounding_box, grid, boxes, brick_vars, flow_vars, stitch_mode, plane, off_plane,
                   subvolume_offsets, pair_merges, merge_list>>

\* mutant: the endpoints of the edge are not looked up in body1body2 first
MergeStep_endpoints_not_resolved ==
    /\ pc = "merging"
    /\ merge_pos < Len(merge_list)
    /\ LET merger == merge_list[merge_pos + 1]
           body1 == merger[1]
           body2 == merger[2]
           old2 == IF body2 \in DOMAIN body2body1 THEN body2body1[body2] ELSE {}
           added == Put(body2body1, body2, old2 \cup {body1})
           moved == IF body1 \in DOMAIN added THEN added[body1] ELSE {}
       IN  /\ body2body1' = Put(added, body2, added[body2] \cup moved)
           /\ body1body2' = [x \in DOMAIN body1body2 \cup {body1} \cup moved |->
                                IF x = body1 \/ x \in moved THEN body2 ELSE body1body2[x]]
    /\ merge_pos' = merge_pos + 1
    /\ UNCHANGED <<pc, bounding_box, grid, boxes, brick_vars, flow_vars, stitch_mode, plane, off_plane,
                   subvolume_offsets, pair_merges, merge_list>>

\* one iteration of "for merger in merge_list"
MergeStep ==
    /\ pc = "merging"
    /\ merge_pos < Len(merge_list)
    /\ LET merger == merge_list[merge_pos + 1]
           body1 == IF merger[1] \in DOMAIN body1body2 THEN body1body2[merger[1]] ELSE merger[1]
           body2 == IF merger[2] \in DOMAIN body1body2 THEN body1body2[merger[2]] ELSE merger[2]
           old2 == IF body2 \in DOMAIN body2body1 THEN body2body1[body2] ELSE {}
           added == Put(body2body1, body2, old2 \cup {body1})
           moved == IF body1 \in DOMAIN added THEN added[body1] ELSE {}
       IN  /\ body2body1' = Put(added, body2, added[body2] \cup moved)
           /\ body1body2' = [x \in DOMAIN body1body2 \cup {body1} \cup moved |->
                                IF x = body1 \/ x \in moved THEN body2 ELSE body1body2[x]]
    /\ merge_pos' = merge_pos + 1
    /\ UNCHANGED <<pc, bounding_box, grid, boxes, brick_vars, flow_vars, stitch_mode, plane, off_plane,
                   subvolume_offsets, pair_merges, merge_list>>

\* master_merge_list = broadcast(zip(body1body2.keys(), body1body2.values()))
BroadcastMerges ==
    /\ pc = "merging"
    /\ merge_pos = Len(merge_list)
    /\ pc' = "merged"
    /\ UNCHANGED <<bounding_box, grid, boxes, brick_vars, stitch_vars, flow_vars>>

\* relabel: label_mappings[label] after the master merge list is applied
relabel(label) == IF label \in DOMAIN body1body2 THEN body1body2[label] ELSE label

NextMerge == MergeStep \/ BroadcastMerges

SpecMerge == InitMerge /\ [][NextMerge]_vars

\* every list of up to MaxEdges pairs of labels, in every order, with repeated
\* edges, edges in both directions and edges from a label to itself
AnyMergeLists == UNION {[1..n -> MergeLabels \X MergeLabels] : n \in 0..MaxEdges}

InitMergeAny ==
    /\ pc = "merging"
    /\ NoBricks
    /\ NoFlow
    /\ stitch_mode = 0
    /\ plane = <<>>
    /\ off_plane = <<>>
    /\ subvolume_offsets = <<0, 0>>
    /\ pair_merges = <<>>
    /\ merge_list \in AnyMergeLists
    /\ merge_pos = 0
    /\ body1body2 = <<>>
    /\ body2body1 = <<>>

SpecMergeAny == InitMergeAny /\ [][NextMerge]_vars

(* ------------------------- claims on stitching ------------------------ *)
RECURSIVE Grow(_)
Grow(S) ==
    LET N == S \cup {y \in MergeLabels :
                        \E i \in DOMAIN merge_list, x \in S :
                            merge_list[i] = <<x, y>> \/ merge_list[i] = <<y, x>>}
    IN  IF N = S THEN S ELSE Grow(N)
\* the connected component of a label in the graph of all merge edges
Component(x) == Grow({x})
SecondEndpoints == {merge_list[i][2] : i \in DOMAIN merge_list}

\* C9 as stated: the final remap maps every label to the numerically smallest
\* label of its connected component.
C9_SmallestRepresentative ==
    pc = "merged"
        => \A x \in MergeLabels : \A y \in Component(x) : relabel(x) <= y

\* C9 amended: the final remap maps all labels of a connected component to one
\* label of that component; for a component of more than one label it is a
\* label that is the second endpoint of an edge (the side of the larger
\* roi_id), not necessarily the smallest label.
C9_ComponentRepresentative ==
    pc = "merged"
        => \A x \in MergeLabels :
              /\ relabel(x) \in Component(x)
              /\ \A y \in Component(x) : relabel(y) = relabel(x)
              /\ Component(x) # {x} => relabel(x) \in SecondEndpoints

\* a component of three labels joined by edges that share endpoints
C9_Witness ==
    /\ pc = "merged"
    /\ Len(merge_list) = MaxEdges
    /\ \E x \in MergeLabels : Cardinality(Component(x)) >= 3
    /\ \E i, j \in DOMAIN merge_list : i < j /\ merge_list[i][1] = merge_list[j][2]

\* C10: in mode medium an edge (a, b) is emitted only when b has the greatest
\* overlap among a's counterparts and a has the greatest overlap among b's;
\* a label all of whose best counterparts overlap more with another label is in
\* no emitted edge.
Overlap(a, b) == plane[<<a, b>>] + off_plane[<<a, b>>]
BestCounterparts1(a) == {b \in Labels2 : \A c \in Labels2 : Overlap(a, c) <= Overlap(a, b)}
EmittedEdges == pair_merges.pass1 \cup pair_merges.pass2

C10_MediumMutualBest ==
    (pc = "stitched" /\ stitch_mode = 2)
        => /\ \A e \in EmittedEdges :
                 /\ \A c \in Labels2 : Overlap(e[1], c) <= Overlap(e[1], e[2])
                 /\ \A c \in Labels1 : Overlap(c, e[2]) <= Overlap(e[1], e[2])
           /\ \A a \in Labels1 :
                 (\A b \in BestCounterparts1(a) : \E c \in Labels1 : Overlap(c, b) > Overlap(a, b))
                     => \A e \in EmittedEdges : e[1] # a
           /\ pair_merges.returned =
                 {<<e[1] + subvolume_offsets[1], e[2] + subvolume_offsets[2]>> : e \in EmittedEdges}

\* labels 1 and 1 are mutual best matches and merge; label 2 of boundary1 has
\* its best match in label 2 of boundary2, which overlaps more with label 3
C10_Witness ==
    /\ pc = "stitched"
    /\ stitch_mode = 2
    /\ <<1, 1>> \in EmittedEdges
    /\ Overlap(2, 2) > hard_lb
    /\ Overlap(2, 2) > Overlap(2, 1)
    /\ Overlap(3, 2) > Overlap(2, 2)
    /\ 2 \in eligible_bodies1
    /\ \A e \in EmittedEdges : e[1] # 2

(* ------------------- claims on split, assemble, padding --------------- *)
\* C17 as stated: split_brick returns an empty list for every source brick
\* whose physical box has zero volume, and every split_box of a brick with a
\* non-empty physical box is non-empty.
C17_SplitOfEmptyBrick ==
    pc \in {"regrid", "back"}
        => \A s \in DOMAIN prev_wall :
              IF NonEmptyBox(prev_wall[s].physical_box)
              THEN \A n \in DOMAIN split_brick(grid, prev_wall[s]) :
                      NonEmptyBox(split_brick(grid, prev_wall[s])[n][2].physical_box)
              ELSE split_brick(grid, prev_wall[s]) = <<>>

\* C18: the fragments split_brick returns for a brick have pairwise disjoint
\* physical boxes whose union is the brick's physical box; the key of a
\* fragment is its logical box, a block of the new grid that contains the
\* fragment; and for a wall with pairwise disjoint physical boxes the fragments
\* grouped under one key are pairwise disjoint.
C18_SplitDisjoint ==
    pc \in {"regrid", "back"}
        => /\ \A s \in DOMAIN prev_wall :
                 LET pairs == split_brick(grid, prev_wall[s])
                 IN  /\ DisjointPhysical(Values(pairs))
                     /\ UNION {PhysicalPoints(pairs[n][2]) : n \in DOMAIN pairs}
                            = PhysicalPoints(prev_wall[s])
                     /\ \A n \in DOMAIN pairs :
                           /\ pairs[n][1] = pairs[n][2].logical_box
                           /\ BoxShape(pairs[n][1]) = grid.block_shape
                           /\ \A a \in Axes :
                                 (pairs[n][1][1][a] - grid.offset[a]) % grid.block_shape[a] = 0
                           /\ BoxInside(pairs[n][2].physical_box, pairs[n][1])
           /\ DisjointPhysical(prev_wall)
                 => \A k \in DOMAIN group_by_key(flat_map_split(grid, prev_wall)) :
                       DisjointPhysical(group_by_key(flat_map_split(grid, prev_wall))[k][2])

\* a brick cut into several fragments, and a key that groups fragments of
\* several bricks
C18_Witness ==
    /\ pc = "regrid"
    /\ NonEmptyPhysical(prev_wall)
    /\ \E s \in DOMAIN prev_wall : Len(split_brick(grid, prev_wall[s])) >= 3
    /\ \E k \in DOMAIN group_by_key(flat_map_split(grid, prev_wall)) :
          Len(group_by_key(flat_map_split(grid, prev_wall))[k][2]) >= 2

FragmentOrders(n) == {f \in [1..n -> 1..n] : \A i, j \in 1..n : i # j => f[i] # f[j]}
HullOf(fragments) ==
    << [a \in Axes |-> CHOOSE x \in {fragments[k].physical_box[1][a] : k \in DOMAIN fragments} :
                         \A k \in DOMAIN fragments : x <= fragments[k].physical_box[1][a]],
       [a \in Axes |-> CHOOSE x \in {fragments[k].physical_box[2][a] : k \in DOMAIN fragments} :
                         \A k \in DOMAIN fragments : x >= fragments[k].physical_box[2][a]] >>

\* C19: for a group of fragments with one logical box and pairwise disjoint
\* physical boxes, assemble_brick_fragments returns a brick whose physical box
\* is the hull of the fragments' boxes, inside the logical box; every fragment
\* voxel is at its global coordinate, hull voxels no fragment covers are zero,
\* and every order of the fragments gives the same brick.
C19_AssembleHull ==
    (pc \in {"regrid", "back"} /\ DisjointPhysical(prev_wall))
        => \A g \in DOMAIN group_by_key(flat_map_split(grid, prev_wall)) :
              LET fragments == group_by_key(flat_map_split(grid, prev_wall))[g][2]
                  brick == assemble_brick_fragments(fragments)
              IN  /\ brick \in BrickSet(wall)
                  /\ brick.logical_box = fragments[1].logical_box
                  /\ brick.physical_box = HullOf(fragments)
                  /\ BoxInside(brick.physical_box, brick.logical_box)
                  /\ \A k \in DOMAIN fragments : \A p \in PhysicalPoints(fragments[k]) :
                        VoxelAt(brick, p) = VoxelAt(fragments[k], p)
                  /\ \A p \in PhysicalPoints(brick) :
                        (\A k \in DOMAIN fragments : p \notin PhysicalPoints(fragments[k]))
                            => VoxelAt(brick, p) = 0
                  /\ \A f \in FragmentOrders(Len(fragments)) :
                        assemble_brick_fragments([n \in DOMAIN fragments |-> fragments[f[n]]])
                            = brick

\* a group of at least three fragments whose hull has a voxel no fragment covers
C19_Witness ==
    /\ pc = "regrid"
    /\ DisjointPhysical(prev_wall)
    /\ NonEmptyPhysical(prev_wall)
    /\ \E g \in DOMAIN group_by_key(flat_map_split(grid, prev_wall)) :
          LET fragments == group_by_key(flat_map_split(grid, prev_wall))[g][2]
          IN  /\ Len(fragments) >= 3
              /\ \E p \in BoxPoints(HullOf(fragments)) :
                    \A k \in DOMAIN fragments : p \notin PhysicalPoints(fragments[k])

LogicalBoxAligned(padding_grid, brick) ==
    \A a \in Axes :
        /\ (brick.logical_box[1][a] - padding_grid.offset[a]) % padding_grid.block_shape[a] = 0
        /\ (brick.logical_box[2][a] - padding_grid.offset[a]) % padding_grid.block_shape[a] = 0

\* C20: padding a brick whose logical box is not aligned to the padding grid
\* fails with no accessor call and no brick; padding a brick whose logical box
\* is aligned never fails, and its padded box lies inside the logical box.
C20_PaddingFailure ==
    pc \in {"padded", "failed"}
        => /\ \A i \in DOMAIN prev_wall :
                 LET padded == pad_brick_data_from_volume_source(pad_grid, "padding", prev_wall[i])
                 IN  /\ padded.ok = LogicalBoxAligned(pad_grid, prev_wall[i])
                     /\ ~padded.ok => padded.calls = <<>>
                     /\ padded.ok => BoxInside(padded.brick.physical_box, prev_wall[i].logical_box)
           /\ pc = "failed" => wall = prev_wall /\ halo_calls = <<>>
           /\ pc = "failed" <=> \E i \in DOMAIN prev_wall : ~LogicalBoxAligned(pad_grid, prev_wall[i])

\* a failed padding with a grid that does not divide the brick's grid, although
\* the physical box would need padding
C20_Witness ==
    /\ pc = "failed"
    /\ \E i \in DOMAIN prev_wall :
          /\ ~LogicalBoxAligned(pad_grid, prev_wall[i])
          /\ ~already_aligned(pad_grid, prev_wall[i])
          /\ NonEmptyBox(prev_wall[i].physical_box)
          /\ prev_wall[i].physical_box # prev_wall[i].logical_box

(* ===================== apply_labelmap_to_bricks ======================= *)
\* LabelMapper.apply_inplace(volume, allow_unmapped=True) with the pairs
\* [orig, new] of mapping_pairs
apply_label_mapping_to_brick(mapping_pairs, brick) ==
    LET relabelled(label) ==
            IF \E n \in DOMAIN mapping_pairs : mapping_pairs[n][1] = label
            THEN mapping_pairs[CHOOSE n \in DOMAIN mapping_pairs : mapping_pairs[n][1] = label][2]
            ELSE label
    IN  [brick EXCEPT !.volume.data = [i \in DOMAIN brick.volume.data |->
                                           relabelled(brick.volume.data[i])]]

\* a new collection with the given bricks
new_rdd(collections, new_bricks, persisted) ==
    [id \in DOMAIN collections \cup {Len(collections) + 1} |->
        IF id = Len(collections) + 1
        THEN [bricks |-> new_bricks, persisted |-> persisted]
        ELSE collections[id]]

\* unpersist(rdd)
unpersist(collections, id) == [collections EXCEPT ![id].persisted = FALSE]

\* mutant: without a label map the input collection is returned in both cases
apply_labelmap_to_bricks_same_rdd(collections, bricks, config) ==
    IF config.file = ""
    THEN [rdds |-> collections, remapped_bricks |-> bricks]
    ELSE LET remapped == [n \in DOMAIN collections[bricks].bricks |->
                             apply_label_mapping_to_brick(config.mapping_pairs,
                                                          collections[bricks].bricks[n])]
             with_new == new_rdd(collections, remapped, TRUE)
             touched == IF config.in_place
                        THEN [with_new EXCEPT ![bricks].bricks = remapped]
                        ELSE with_new
         IN  [rdds |-> IF config.unpersist_original THEN unpersist(touched, bricks) ELSE touched,
              remapped_bricks |-> Len(collections) + 1]

\* [rdds, remapped_bricks]: the collections after the call and the id returned
apply_labelmap_to_bricks(collections, bricks, config) ==
    IF config.file = ""
    THEN IF ~config.unpersist_original
         THEN [rdds |-> new_rdd(collections, collections[bricks].bricks, FALSE),
               remapped_bricks |-> Len(collections) + 1]
         ELSE [rdds |-> collections, remapped_bricks |-> bricks]
    ELSE LET remapped == [n \in DOMAIN collections[bricks].bricks |->
                             apply_label_mapping_to_brick(config.mapping_pairs,
                                                          collections[bricks].bricks[n])]
             with_new == new_rdd(collections, remapped, TRUE)
             \* apply_inplace writes into the volumes of the input bricks when
             \* the collection hands out the brick objects themselves
             touched == IF config.in_place
                        THEN [with_new EXCEPT ![bricks].bricks = remapped]
                        ELSE with_new
         IN  [rdds |-> IF config.unpersist_original THEN unpersist(touched, bricks) ELSE touched,
              remapped_bricks |-> Len(collections) + 1]

LabelValues == 0..MaxLabel2
LabelBoxes == << <<ZeroVec, [a \in Axes |-> IF a = Dim THEN 2 ELSE 1]>>,
                 <<[a \in Axes |-> IF a = Dim THEN 2 ELSE 0], [a \in Axes |-> IF a = Dim THEN 4 ELSE 1]>> >>
LabelBricks(n) ==
    {Brick(LabelBoxes[n], LabelBoxes[n],
           [shape |-> BoxShape(LabelBoxes[n]), data |-> d]) :
        d \in [LocalIdx(BoxShape(LabelBoxes[n])) -> LabelValues]}
LabelWalls == {<<b>> : b \in LabelBricks(1)}
                  \cup {<<b1, b2>> : b1 \in LabelBricks(1), b2 \in LabelBricks(2)}
\* [[orig, new], ...] with no orig listed twice
MappingPairs ==
    {m \in UNION {[1..n -> LabelValues \X LabelValues] : n \in 0..MaxLabel2} :
        \A i, j \in DOMAIN m : i # j => m[i][1] # m[j][1]}
LabelmapConfigs ==
    {[file |-> "", mapping_pairs |-> <<>>, unpersist_original |-> u, in_place |-> FALSE] :
        u \in BOOLEAN}
    \cup {[file |-> "labelmap.csv", mapping_pairs |-> m, unpersist_original |-> u, in_place |-> i] :
            m \in MappingPairs, u \in BOOLEAN, i \in BOOLEAN}

InitLabelmap ==
    /\ pc = "bricks"
    /\ bounding_box = NoBox
    /\ grid = NoGrid
    /\ boxes = <<>>
    /\ wall = <<>>
    /\ first_wall = <<>>
    /\ first_grid = NoGrid
    /\ \E w \in LabelWalls : /\ prev_wall = w
                             /\ rdds = << [bricks |-> w, persisted |-> TRUE] >>
    /\ pad_grid = NoGrid
    /\ halo_calls = <<>>
    /\ NoStitch
    /\ NoWorkers
    /\ NoCopy
    /\ NoDriver
    /\ bricks_id = 1
    /\ remapped_id = 0
    /\ labelmap_config \in LabelmapConfigs

\* remapped_bricks = apply_labelmap_to_bricks(bricks, labelmap_config, working_dir, unpersist_original)
ApplyLabelmap ==
    /\ pc = "bricks"
    /\ LET applied == apply_labelmap_to_bricks(rdds, bricks_id, labelmap_config)
       IN  /\ rdds' = applied.rdds
           /\ remapped_id' = applied.remapped_bricks
    /\ pc' = "remapped"
    /\ UNCHANGED <<bounding_box, grid, boxes, brick_vars, stitch_vars, driver_vars, worker_vars, copy_vars, bricks_id, labelmap_config>>

\* the caller unpersists the returned collection
UnpersistRemapped ==
    /\ pc = "remapped"
    /\ rdds' = unpersist(rdds, remapped_id)
    /\ pc' = "remapped_unpersisted"
    /\ UNCHANGED <<bounding_box, grid, boxes, brick_vars, stitch_vars, driver_vars, worker_vars, copy_vars, bricks_id,
                   remapped_id, labelmap_config>>

NextLabelmap == ApplyLabelmap \/ UnpersistRemapped

SpecLabelmap == InitLabelmap /\ [][NextLabelmap]_vars

MaxNodes == 3
MaxCalls == 2
\* executor threads that run tasks concurrently on one node
Cores == 2
\* num_tasks = num_workers * 16
tasks_per_worker == 16

Nodes == 1..num_workers
Threads == 1..Cores
\* '/tmp/' + self._execution_uuid + str(self._worker_task_id), on the node's disk
status_filepath(node) == <<node, worker_task_id>>
\* set(filter(None, node_names))
node_names == {n \in Nodes : func_runs[n] > 0}
AllIdle == \A n \in Nodes : \A t \in Threads : task_pc[n][t] = "idle"

InitWorkers ==
    /\ pc = "workflow"
    /\ bounding_box = NoBox
    /\ grid = NoGrid
    /\ boxes = <<>>
    /\ NoBricks
    /\ NoStitch
    /\ NoLabelmap
    /\ NoCopy
    /\ NoDriver
    \* num_workers = max(1, num_nodes - 1)
    /\ \E num_nodes \in 1..MaxNodes : num_workers = Max2(1, num_nodes - 1)
    \* Workflow.__init__
    /\ worker_task_id = 0
    /\ status_files = {}
    /\ file_lock = [n \in Nodes |-> 0]
    /\ task_pc = [n \in Nodes |-> [t \in Threads |-> "idle"]]
    /\ tasks_left = 0
    /\ func_runs = [n \in Nodes |-> 0]
    /\ scheduled = [n \in Nodes |-> FALSE]
    /\ call_no = 0

\* run_on_each_worker(func) up to the submission of the tasks
RunOnEachWorker ==
    /\ pc \in {"workflow", "returned"}
    /\ call_no < MaxCalls
    /\ call_no' = call_no + 1
    /\ tasks_left' = num_workers * tasks_per_worker
    /\ func_runs' = [n \in Nodes |-> 0]
    /\ scheduled' = [n \in Nodes |-> FALSE]
    /\ pc' = "collecting"
    /\ UNCHANGED <<bounding_box, grid, boxes, brick_vars, stitch_vars, driver_vars, labelmap_vars,
                   copy_vars, num_workers, worker_task_id, status_files, file_lock, task_pc>>

\* the scheduler hands the next task to a free executor thread of some node
StartTask(node, thread) ==
    /\ pc = "collecting"
    /\ tasks_left > 0
    /\ task_pc[node][thread] = "idle"
    /\ tasks_left' = tasks_left - 1
    /\ scheduled' = [scheduled EXCEPT ![node] = TRUE]
    /\ task_pc' = [task_pc EXCEPT ![node][thread] = "lock"]
    /\ UNCHANGED <<pc, bounding_box, grid, boxes, brick_vars, stitch_vars, driver_vars, labelmap_vars,
                   copy_vars, num_workers, worker_task_id, status_files, file_lock, func_runs, call_no>>

\* with FileLock(status_filepath):
AcquireLock(node, thread) ==
    /\ task_pc[node][thread] = "lock"
    /\ file_lock[node] = 0
    /\ file_lock' = [file_lock EXCEPT ![node] = thread]
    /\ task_pc' = [task_pc EXCEPT ![node][thread] = "exists"]
    /\ UNCHANGED <<pc, bounding_box, grid, boxes, brick_vars, stitch_vars, driver_vars, labelmap_vars,
                   copy_vars, num_workers, worker_task_id, status_files, tasks_left, func_runs,
                   scheduled, call_no>>

\* if os.path.exists(status_filepath): return None
CheckStatusFile(node, thread) ==
    /\ task_pc[node][thread] = "exists"
    /\ IF status_filepath(node) \in status_files
       THEN /\ task_pc' = [task_pc EXCEPT ![node][thread] = "idle"]
            /\ file_lock' = [file_lock EXCEPT ![node] = IF @ = thread THEN 0 ELSE @]
       ELSE /\ task_pc' = [task_pc EXCEPT ![node][thread] = "open"]
            /\ UNCHANGED file_lock
    /\ UNCHANGED <<pc, bounding_box, grid, boxes, brick_vars, stitch_vars, driver_vars, labelmap_vars,
                   copy_vars, num_workers, worker_task_id, status_files, tasks_left, func_runs,
                   scheduled, call_no>>

\* open(status_filepath, 'w'), and the lock is released at the end of the block
CreateStatusFile(node, thread) ==
    /\ task_pc[node][thread] = "open"
    /\ status_files' = status_files \cup {status_filepath(node)}
    /\ file_lock' = [file_lock EXCEPT ![node] = IF @ = thread THEN 0 ELSE @]
    /\ task_pc' = [task_pc EXCEPT ![node][thread] = "func"]
    /\ UNCHANGED <<pc, bounding_box, grid, boxes, brick_vars, stitch_vars, driver_vars, labelmap_vars,
                   copy_vars, num_workers, worker_task_id, tasks_left, func_runs, scheduled, call_no>>

\* func(); return socket.gethostname()
RunFunc(node, thread) ==
    /\ task_pc[node][thread] = "func"
    /\ func_runs' = [func_runs EXCEPT ![node] = @ + 1]
    /\ task_pc' = [task_pc EXCEPT ![node][thread] = "idle"]
    /\ UNCHANGED <<pc, bounding_box, grid, boxes, brick_vars, stitch_vars, driver_vars, labelmap_vars,
                   copy_vars, num_workers, worker_task_id, status_files, file_lock, tasks_left,
                   scheduled, call_no>>

\* collect() has every result; the assertion on the node names; the log line
\* takes len() of the filtered names, which raises where filter() is lazy
CollectNodeNames ==
    /\ pc = "collecting"
    /\ tasks_left = 0
    /\ AllIdle
    /\ IF Cardinality(node_names) = num_workers
       THEN pc' \in {"returned", "raised"}
       ELSE pc' = "failed"
    /\ UNCHANGED <<bounding_box, grid, boxes, brick_vars, stitch_vars, flow_vars>>

NextWorkers ==
    \/ RunOnEachWorker
    \/ \E node \in Nodes, thread \in Threads : StartTask(node, thread)
    \/ \E node \in Nodes, thread \in Threads : AcquireLock(node, thread)
    \/ \E node \in Nodes, thread \in Threads : CheckStatusFile(node, thread)
    \/ \E node \in Nodes, thread \in Threads : CreateStatusFile(node, thread)
    \/ \E node \in Nodes, thread \in Threads : RunFunc(node, thread)
    \/ CollectNodeNames

SpecWorkers == InitWorkers /\ [][NextWorkers]_vars

\* C16: when a call of run_on_each_worker has collected its tasks, and every
\* worker node ran at least one of them, func has executed exactly once on each
\* worker node during that call, in the first call and in every later one.
C16_OncePerWorkerEveryCall ==
    (pc \in {"returned", "raised", "failed"} /\ \A n \in Nodes : scheduled[n])
        => \A n \in Nodes : func_runs[n] = 1

\* the first call alone runs func exactly once on every node that got a task
C16_FirstCallOncePerWorker ==
    (call_no = 1 /\ pc \in {"returned", "raised", "failed"})
        => \A n \in Nodes : func_runs[n] = IF scheduled[n] THEN 1 ELSE 0

\* within one call no node executes func twice, whatever the interleaving
C16_AtMostOncePerCall ==
    \A n \in Nodes : func_runs[n] + Cardinality({t \in Threads : task_pc[n][t] = "func"}) <= 1

(* ============================ CopyGrayscale =========================== *)
MaxStop == 4
MaxSlabDepth == 3
MaxStartingSlice == 4
MaxScale == 1
MaxBlockWidth == 2

\* new_array[:] = np.where(new_array == marker, default_array, new_array)
replace_default_entries(array, default_array) ==
    << [a \in Axes |-> IF array[1][a] = -1 THEN default_array[1][a] ELSE array[1][a]],
       [a \in Axes |-> IF array[2][a] = -1 THEN default_array[2][a] ELSE array[2][a]] >>

\* mutant: the assertion on starting-slice is missing
_validate_config_without_starting_slice(config, output_bb_zyx) ==
    LET axis == config.slab_axis
        brick_width == config.preferred_message_shape[axis]
        input_bb_zyx == config.input_bb
    IN  /\ config.slab_depth % brick_width = 0
        /\ \A a \in Axes : \A e \in 1..2 :
              output_bb_zyx[e][a] = input_bb_zyx[e][a] \/ output_bb_zyx[e][a] = -1
        /\ config.pyramid_source = "copy"
              => (0..(config.max_pyramid_scale - 1)) \ config.available_scales = {}

\* TRUE when no assertion of _validate_config fires
_validate_config(config, output_bb_zyx) ==
    LET axis == config.slab_axis
        brick_width == config.preferred_message_shape[axis]
        input_bb_zyx == config.input_bb
    IN  /\ config.slab_depth % brick_width = 0
        /\ config.starting_slice % config.slab_depth = 0
        /\ \A a \in Axes : \A e \in 1..2 :
              output_bb_zyx[e][a] = input_bb_zyx[e][a] \/ output_bb_zyx[e][a] = -1
        /\ config.pyramid_source = "copy"
              => (0..(config.max_pyramid_scale - 1)) \ config.available_scales = {}

\* slabs_from_box(input_bb_zyx, slab_depth, 0, 'round-down', axis): the boxes of
\* the grid of slabs of the given depth, starting at multiples of the depth,
\* clipped to the bounding box
slabs_from_box(full_res_box, slab_depth, axis) ==
    clipped_boxes_from_grid(full_res_box,
        Grid([a \in Axes |-> IF a = axis THEN slab_depth ELSE full_res_box[2][a] - full_res_box[1][a]],
             [a \in Axes |-> IF a = axis THEN 0 ELSE full_res_box[1][a]]))

\* mutant: a slab is skipped when it ends below starting-slice
skip_slab_by_stop(slab_fullres_box_zyx, axis, starting_slice) ==
    slab_fullres_box_zyx[2][axis] < starting_slice

\* if slab_fullres_box_zyx[0, axis] < starting_slice: continue
skip_slab(slab_fullres_box_zyx, axis, starting_slice) ==
    slab_fullres_box_zyx[1][axis] < starting_slice

\* mutant: the loop over the scales is the outer loop
next_position_scale_major(index, current_scale, num_slabs, max_scale) ==
    IF index < num_slabs THEN <<index + 1, current_scale>>
    ELSE IF current_scale < max_scale THEN <<1, current_scale + 1>>
    ELSE <<num_slabs + 1, 0>>

\* <<slab_index, scale>> of the _process_slab call after the given one
next_position(index, current_scale, num_slabs, max_scale) ==
    IF current_scale < max_scale THEN <<index, current_scale + 1>> ELSE <<index + 1, 0>>

\* output_service.write_subvolume(subvol, offset, scale): the voxels written
write_subvolume(subvol, offset) ==
    [p \in BoxPoints(<<offset, VecAdd(offset, subvol.shape)>>) |-> subvol.data[VecSub(p, offset)]]

\* mutant: the trimmed volume is written at the start of the brick
write_brick_at_brick_start(is_dvid, block_width, brick) ==
    IF ~is_dvid
    THEN [ok |-> TRUE, written |-> write_subvolume(brick.volume, brick.physical_box[1])]
    ELSE LET shape == brick.volume.shape
             nonzero_block_indexes ==
                 {b \in 0..((shape[Dim] \div block_width) - 1) :
                     \E i \in LocalIdx(shape) : i[Dim] \div block_width = b /\ brick.volume.data[i] # 0}
             first_nonzero_block == CHOOSE b \in nonzero_block_indexes :
                                        \A c \in nonzero_block_indexes : b <= c
             last_nonzero_block == CHOOSE b \in nonzero_block_indexes :
                                        \A c \in nonzero_block_indexes : b >= c
             nonzero_start == [a \in Axes |-> IF a = Dim THEN block_width * first_nonzero_block ELSE 0]
             nonzero_stop == [a \in Axes |-> IF a = Dim THEN block_width * (last_nonzero_block + 1)
                                                        ELSE shape[a]]
             nonzero_subvol == extract_subvol(brick.volume, <<nonzero_start, nonzero_stop>>)
         IN  IF ~(/\ \A a \in 1..(Dim - 1) : shape[a] = block_width
                  /\ shape[Dim] % block_width = 0
                  /\ ~(\A a \in Axes : shape[a] % block_width # 0))
             THEN [ok |-> FALSE, written |-> <<>>]
             ELSE IF nonzero_block_indexes = {}
             THEN [ok |-> TRUE, written |-> <<>>]
             ELSE [ok |-> TRUE,
                   written |-> write_subvolume(nonzero_subvol, brick.physical_box[1])]

\* [ok, written]: ok is FALSE when an assertion fires, written are the output
\* voxels the call writes
write_brick(is_dvid, block_width, brick) ==
    IF ~is_dvid
    THEN [ok |-> TRUE, written |-> write_subvolume(brick.volume, brick.physical_box[1])]
    ELSE LET shape == brick.volume.shape
             \* the blocks along the last axis that hold a non-zero voxel
             nonzero_block_indexes ==
                 {b \in 0..((shape[Dim] \div block_width) - 1) :
                     \E i \in LocalIdx(shape) : i[Dim] \div block_width = b /\ brick.volume.data[i] # 0}
             first_nonzero_block == CHOOSE b \in nonzero_block_indexes :
                                        \A c \in nonzero_block_indexes : b <= c
             last_nonzero_block == CHOOSE b \in nonzero_block_indexes :
                                        \A c \in nonzero_block_indexes : b >= c
             nonzero_start == [a \in Axes |-> IF a = Dim THEN block_width * first_nonzero_block ELSE 0]
             nonzero_stop == [a \in Axes |-> IF a = Dim THEN block_width * (last_nonzero_block + 1)
                                                        ELSE shape[a]]
             nonzero_subvol == extract_subvol(brick.volume, <<nonzero_start, nonzero_stop>>)
         IN  IF ~(/\ \A a \in 1..(Dim - 1) : shape[a] = block_width
                  /\ shape[Dim] % block_width = 0
                  /\ ~(\A a \in Axes : shape[a] % block_width # 0))
             THEN [ok |-> FALSE, written |-> <<>>]
             ELSE IF nonzero_block_indexes = {}
             THEN [ok |-> TRUE, written |-> <<>>]
             ELSE [ok |-> TRUE,
                   written |-> write_subvolume(nonzero_subvol,
                                               VecAdd(brick.physical_box[1], nonzero_start))]

\* padded_slab_wall.bricks.map(_write).compute(): the voxels the calls of
\* write_brick write together; a call that fails writes nothing
RECURSIVE written_by(_)
written_by(writes) ==
    IF writes = <<>> THEN <<>>
    ELSE Head(writes).written @@ written_by(Tail(writes))

NoWall == <<>>

\* the body applied to the value, the value computed once
Bind(value, Body(_)) == CHOOSE result \in {Body(x) : x \in {value}} : TRUE

\* [ok, wall, log, written] of one call of _process_slab: ok is FALSE when an
\* assertion fires, wall is the returned wall, log lists the operations on the
\* input and the output in order, written are the scale-0 voxels written.
\* Only the bricks of scale 0 are represented.
_process_slab(config, current_scale, slab_fullres_box_zyx, index, upscale_slab_wall) ==
    LET pyramid_source == config.pyramid_source
        min_scale == config.min_pyramid_scale
        fetched == IF pyramid_source = "copy" \/ current_scale = 0
                   THEN <<"fetch", index, current_scale>>
                   ELSE <<"downsample", index, current_scale>>
        fetch_and_pad == <<fetched, <<"pad", index, current_scale>>>>
        output_grid == Grid(config.preferred_message_shape, ZeroVec)
        padding_grid == IF config.dvid
                        THEN Grid([a \in Axes |-> config.block_width], output_grid.offset)
                        ELSE output_grid
    IN  IF current_scale < min_scale /\ pyramid_source = "copy"
        THEN [ok |-> TRUE, wall |-> NoWall, log |-> <<>>, written |-> <<>>]
        ELSE IF current_scale > 0
        THEN [ok |-> TRUE,
              wall |-> [scale |-> current_scale, bricks |-> <<>>],
              log |-> fetch_and_pad \o (IF current_scale < min_scale THEN <<>>
                                        ELSE << <<"write", index, current_scale>> >>),
              written |-> <<>>]
        ELSE
        Bind(generate_bricks_from_volume_source(slab_fullres_box_zyx,
                 Grid(config.input_message_shape, ZeroVec), config.input_volume),
             LAMBDA bricked_slab_wall :
        IF ~RealignAsserts(output_grid, bricked_slab_wall)
        THEN [ok |-> FALSE, wall |-> NoWall, log |-> <<fetched>>, written |-> <<>>]
        ELSE
        Bind(Values(realign_bricks_to_new_grid(output_grid, bricked_slab_wall)),
             LAMBDA output_slab_wall :
        Bind([k \in DOMAIN output_slab_wall |->
                 pad_brick_data_from_volume_source(padding_grid, "zeros", output_slab_wall[k])],
             LAMBDA padded :
        Bind([k \in DOMAIN padded |-> padded[k].brick],
             LAMBDA padded_slab_wall :
        IF \E k \in DOMAIN padded : ~padded[k].ok
        THEN [ok |-> FALSE, wall |-> NoWall, log |-> fetch_and_pad, written |-> <<>>]
        ELSE IF current_scale < min_scale
        THEN [ok |-> TRUE,
              wall |-> [scale |-> current_scale, bricks |-> padded_slab_wall],
              log |-> fetch_and_pad, written |-> <<>>]
        ELSE
        Bind([k \in DOMAIN padded_slab_wall |->
                 write_brick(config.dvid, config.block_width, padded_slab_wall[k])],
             LAMBDA writes :
             [ok |-> \A k \in DOMAIN writes : writes[k].ok,
              wall |-> [scale |-> current_scale, bricks |-> padded_slab_wall],
              log |-> fetch_and_pad \o << <<"write", index, current_scale>> >>,
              written |-> written_by(writes)])))))

BBRanges == {<<0, MaxStop>>, <<1, MaxStop - 1>>}
InputBoxes ==
    {<< [a \in Axes |-> r[a][1]], [a \in Axes |-> r[a][2]] >> : r \in [Axes -> BBRanges]}
\* the configured output bounding-box: left as -1, equal to the input's, or different
OutputBoxes(input_bb) ==
    { << [a \in Axes |-> -1], [a \in Axes |-> -1] >>,
      << [a \in Axes |-> -1], input_bb[2] >>,
      input_bb,
      << input_bb[1], [input_bb[2] EXCEPT ![1] = @ + 1] >> }
MessageShapes == [Axes -> 1..MaxBlockWidth]
           \cup {[a \in Axes |-> IF a = Dim THEN 2 * w ELSE w] : w \in 1..MaxBlockWidth}
CopyConfigs ==
    {[input_bb |-> bb, input_message_shape |-> [a \in Axes |-> 2], input_volume |-> vol,
      slab_axis |-> axis, slab_depth |-> depth, starting_slice |-> s,
      min_pyramid_scale |-> lo, max_pyramid_scale |-> hi,
      pyramid_source |-> src[1], available_scales |-> src[2],
      input_available_scales |-> src[3],
      dvid |-> out[1], block_width |-> out[2], preferred_message_shape |-> shape] :
        bb \in InputBoxes, vol \in {"source", "sparse"}, axis \in Axes,
        depth \in 1..MaxSlabDepth, s \in 0..MaxStartingSlice,
        lo \in 0..MaxScale, hi \in 0..MaxScale,
        \* the scales of the output service (the ones _validate_config reads) and
        \* of the input service
        src \in ({"copy"} \X {{}, {0}} \X {{0}, 0..MaxScale})
                   \cup ({"compute", "compute-as-labels"} \X {{0}} \X {{0}}),
        out \in ({TRUE} \X (1..MaxBlockWidth)) \cup {<<FALSE, 1>>},
        shape \in MessageShapes}

InitCopy ==
    /\ pc = "execute"
    /\ bounding_box = NoBox
    /\ grid = NoGrid
    /\ boxes = <<>>
    /\ NoBricks
    /\ NoStitch
    /\ NoLabelmap
    /\ NoWorkers
    /\ NoDriver
    /\ copy_config \in CopyConfigs
    /\ output_bb \in OutputBoxes(copy_config.input_bb)
    /\ prepared = {}
    /\ slab_boxes = <<>>
    /\ slab_index = 0
    /\ scale = 0
    /\ slab_wall = NoWall
    /\ copy_log = <<>>
    /\ output_voxels = <<>>

copy_frame == <<bounding_box, grid, boxes, brick_vars, stitch_vars, driver_vars, labelmap_vars, worker_vars,
                copy_config>>

\* self._init_services()
InitServices ==
    /\ pc = "execute"
    /\ output_bb' = replace_default_entries(output_bb, copy_config.input_bb)
    /\ pc' = "services"
    /\ UNCHANGED <<copy_frame, prepared, slab_boxes, slab_index, scale, slab_wall, copy_log,
                   output_voxels>>

\* self._validate_config()
ValidateConfig ==
    /\ pc = "services"
    /\ pc' = IF _validate_config(copy_config, output_bb) THEN "validated" ELSE "config_error"
    /\ UNCHANGED <<copy_frame, output_bb, prepared, slab_boxes, slab_index, scale, slab_wall,
                   copy_log, output_voxels>>

\* self._prepare_output(), then execute up to the loop over the slabs
PrepareOutput ==
    /\ pc = "validated"
    /\ prepared' = IF copy_config.dvid THEN 0..copy_config.max_pyramid_scale ELSE {}
    /\ slab_boxes' = slabs_from_box(copy_config.input_bb, copy_config.slab_depth,
                                    copy_config.slab_axis)
    /\ slab_index' = 1
    /\ scale' = 0
    /\ pc' = "slabs"
    /\ UNCHANGED <<copy_frame, output_bb, slab_wall, copy_log, output_voxels>>

\* one pass of the loop over the slabs that takes the continue
SkipSlab ==
    /\ pc = "slabs"
    /\ slab_index <= Len(slab_boxes)
    /\ skip_slab(slab_boxes[slab_index], copy_config.slab_axis, copy_config.starting_slice)
    /\ slab_index' = slab_index + 1
    /\ UNCHANGED <<pc, copy_frame, output_bb, prepared, slab_boxes, scale, slab_wall, copy_log,
                   output_voxels>>

\* slab_wall = self._process_slab(scale, slab_fullres_box_zyx, ...)
ProcessSlab ==
    /\ pc = "slabs"
    /\ slab_index <= Len(slab_boxes)
    /\ ~skip_slab(slab_boxes[slab_index], copy_config.slab_axis, copy_config.starting_slice)
    /\ \E processed \in {_process_slab(copy_config, scale, slab_boxes[slab_index], slab_index,
                                        slab_wall)},
          next \in {next_position(slab_index, scale, Len(slab_boxes),
                                  copy_config.max_pyramid_scale)} :
           /\ copy_log' = copy_log \o processed.log
           /\ output_voxels' = processed.written @@ output_voxels
           /\ IF processed.ok
              THEN /\ slab_index' = next[1]
                   /\ scale' = next[2]
                   /\ slab_wall' = IF next[2] = 0 THEN NoWall ELSE processed.wall
                   /\ pc' = "slabs"
              ELSE /\ pc' = "failed"
                   /\ UNCHANGED <<slab_index, scale, slab_wall>>
    /\ UNCHANGED <<copy_frame, output_bb, prepared, slab_boxes>>

\* the loop over the slabs ends
FinishCopy ==
    /\ pc = "slabs"
    /\ slab_index > Len(slab_boxes)
    /\ pc' = "done"
    /\ UNCHANGED <<copy_frame, output_bb, prepared, slab_boxes, slab_index, scale, slab_wall,
                   copy_log, output_voxels>>

NextCopy ==
    InitServices \/ ValidateConfig \/ PrepareOutput \/ SkipSlab \/ ProcessSlab \/ FinishCopy

SpecCopy == InitCopy /\ [][NextCopy]_vars

\* the output voxel at a coordinate of scale 0; the output starts empty
OutputVoxel(p) == IF p \in DOMAIN output_voxels THEN output_voxels[p] ELSE 0

(* ------------------ claims on the CopyGrayscale workflow ---------------- *)
\* the three configuration errors of C15
SlabDepthError ==
    copy_config.slab_depth % copy_config.preferred_message_shape[copy_config.slab_axis] # 0
StartingSliceError == copy_config.starting_slice % copy_config.slab_depth # 0
\* the bounding-box the output was configured with: output_bb before _init_services,
\* which only replaces the entries that are -1
OutputBoxError ==
    \E a \in Axes : \E e \in 1..2 :
        output_bb[e][a] # -1 /\ output_bb[e][a] # copy_config.input_bb[e][a]

\* C15: when slab-depth is not a multiple of the output brick width along the
\* slab axis, or starting-slice is not a multiple of slab-depth, or the output
\* bounding box differs from the input's in an entry that is not -1, execute
\* fails in the validation: no output instance is prepared, nothing is fetched,
\* padded or written, and the run never gets past the validation.
C15_ValidationFatal ==
    (SlabDepthError \/ StartingSliceError \/ OutputBoxError)
        => /\ pc \in {"execute", "services", "config_error"}
           /\ prepared = {}
           /\ slab_boxes = <<>>
           /\ copy_log = <<>>
           /\ output_voxels = <<>>

\* a DVID run failed its validation only because of starting-slice
C15_Witness ==
    /\ pc = "config_error"
    /\ copy_config.dvid
    /\ StartingSliceError
    /\ ~SlabDepthError
    /\ ~OutputBoxError
    /\ copy_config.pyramid_source # "copy"

\* C11 as stated: after execute with starting-slice 0 into an empty output,
\* every scale-0 output voxel inside the input bounding box equals the input
\* voxel at the same coordinate.
C11_ScaleZeroExact ==
    (pc = "done" /\ copy_config.starting_slice = 0)
        => \A p \in BoxPoints(copy_config.input_bb) :
              OutputVoxel(p) = AccessorValue(copy_config.input_volume, p)

\* C11, with the condition that scale 0 is among the scales written
\* (min-pyramid-scale = 0): after execute with starting-slice 0 into an empty
\* output, every scale-0 output voxel inside the input bounding box equals the
\* input voxel at the same coordinate.
C11_ScaleZeroExactFromMinScaleZero ==
    (pc = "done" /\ copy_config.starting_slice = 0 /\ copy_config.min_pyramid_scale = 0)
        => \A p \in BoxPoints(copy_config.input_bb) :
              OutputVoxel(p) = AccessorValue(copy_config.input_volume, p)

\* a DVID copy of a box not aligned to the blocks, in two slabs, whose bricks
\* have empty leading blocks, has ended
C11_Witness ==
    /\ pc = "done"
    /\ copy_config.starting_slice = 0
    /\ copy_config.min_pyramid_scale = 0
    /\ copy_config.dvid
    /\ copy_config.block_width = 2
    /\ copy_config.input_volume = "sparse"
    /\ copy_config.input_bb[1][1] = 1
    /\ copy_config.preferred_message_shape[Dim] = 4
    /\ Len(slab_boxes) = 2
    /\ output_voxels # <<>>
    /\ \E p \in BoxPoints(copy_config.input_bb) : p \notin DOMAIN output_voxels
    /\ \E p \in BoxPoints(copy_config.input_bb) : OutputVoxel(p) # 0
    /\ \E p \in DOMAIN output_voxels : p \notin BoxPoints(copy_config.input_bb)

\* the place of a logged operation in the order slab, scale, fetch < pad < write
PhaseOf(op) == IF op \in {"fetch", "downsample"} THEN 1 ELSE IF op = "pad" THEN 2 ELSE 3
Before(e, f) ==
    \/ e[2] < f[2]
    \/ e[2] = f[2] /\ e[3] < f[3]
    \/ e[2] = f[2] /\ e[3] = f[3] /\ PhaseOf(e[1]) < PhaseOf(f[1])
WrittenScales == {k \in 0..copy_config.max_pyramid_scale : k >= copy_config.min_pyramid_scale}
LoggedBefore(n, e) == \E m \in 1..(n - 1) : copy_log[m] = e
SlabsIn(log) == {log[n][2] : n \in DOMAIN log}

\* C12: the operations on the input and the output happen slab after slab: an
\* operation of a slab comes after every write, at every written scale, of
\* each slab processed before it; within a slab the scales come in increasing
\* order; and a scale is fetched or downsampled only after the write of the
\* scale before it.
C12_SlabsSequential ==
    \A n \in DOMAIN copy_log :
        /\ \A m \in 1..(n - 1) : Before(copy_log[m], copy_log[n])
        /\ \A i \in SlabsIn(copy_log) : i < copy_log[n][2]
              => \A k \in WrittenScales : LoggedBefore(n, <<"write", i, k>>)
        /\ (PhaseOf(copy_log[n][1]) = 1 /\ (copy_log[n][3] - 1) \in WrittenScales)
              => LoggedBefore(n, <<"write", copy_log[n][2], copy_log[n][3] - 1>>)

\* two slabs were copied and downsampled, one after the other
C12_Witness ==
    /\ pc = "done"
    /\ copy_config.pyramid_source = "compute"
    /\ copy_config.max_pyramid_scale = 1
    /\ copy_config.min_pyramid_scale = 0
    /\ SlabsIn(copy_log) = {1, 2}
    /\ Len(copy_log) = 12
    /\ copy_log[7] = <<"fetch", 2, 0>>
    /\ copy_log[4] = <<"downsample", 1, 1>>

\* what a run without starting-slice does for one slab: the calls of
\* _process_slab for the scales from k on, [log, written]
RECURSIVE FullRunOfSlab(_, _, _)
FullRunOfSlab(i, k, upscale_slab_wall) ==
    IF k > copy_config.max_pyramid_scale THEN [log |-> <<>>, written |-> <<>>]
    ELSE LET processed == _process_slab(copy_config, k, slab_boxes[i], i, upscale_slab_wall)
             later == FullRunOfSlab(i, k + 1, processed.wall)
         IN  [log |-> processed.log \o later.log, written |-> later.written @@ processed.written]
\* the same for the slabs from i on
RECURSIVE FullRunFrom(_, _)
FullRunFrom(i, from_slice) ==
    IF i > Len(slab_boxes) THEN [log |-> <<>>, written |-> <<>>]
    ELSE LET later == FullRunFrom(i + 1, from_slice)
         IN  IF slab_boxes[i][1][copy_config.slab_axis] < from_slice
             THEN later
             ELSE LET this == FullRunOfSlab(i, 0, NoWall)
                  IN  [log |-> this.log \o later.log, written |-> later.written @@ this.written]

\* C13: with starting-slice s, nothing is fetched, padded or written for a slab
\* that starts below s; no scale-0 voxel with a slab-axis coordinate below s is
\* written; and a run that ends has done for the other slabs exactly the
\* operations and the writes a run without starting-slice does for them.
C13_ResumeLeavesEarlierSlabs ==
    LET s == copy_config.starting_slice
        axis == copy_config.slab_axis
    IN  pc \in {"slabs", "done", "failed"}
          => /\ \A n \in DOMAIN copy_log : slab_boxes[copy_log[n][2]][1][axis] >= s
             /\ \A p \in DOMAIN output_voxels : p[axis] >= s
             /\ pc = "done" => /\ copy_log = FullRunFrom(1, s).log
                               /\ output_voxels = FullRunFrom(1, s).written

\* a resumed run has skipped the first slab and written the second
C13_Witness ==
    /\ pc = "done"
    /\ copy_config.starting_slice = 2
    /\ Len(slab_boxes) = 2
    /\ slab_boxes[1][1][copy_config.slab_axis] < 2
    /\ SlabsIn(copy_log) = {2}
    /\ \E p \in DOMAIN output_voxels : output_voxels[p] # 0
    /\ FullRunFrom(1, 0).written # output_voxels

\* C27: with pyramid-source 'copy', a configuration that passes
\* _validate_config has every scale from 0 up to and including
\* max-pyramid-scale among the input service's available scales.
C27_CopyNeedsEveryInputScale ==
    (pc \in {"validated", "slabs", "done", "failed"} /\ copy_config.pyramid_source = "copy")
        => \A k \in 0..copy_config.max_pyramid_scale : k \in copy_config.input_available_scales

(* ------------------ claims on the stitcher's vote counts -------------- *)
\* C26 as stated: the count the stitcher uses for a pair of labels is the
\* number of voxels of the interface plane where the two slabs carry these
\* labels, so an emitted edge joins two labels that co-occur on the plane in
\* more than hard_lb voxels.
C26_VotesOnPlaneOnly ==
    (pc = "stitched" /\ stitch_mode > 0)
        => /\ \A a \in Labels1, b \in Labels2 :
                 /\ overlap_of_body1(a)[b] = plane[<<a, b>>]
                 /\ overlap_of_body2(b)[a] = plane[<<a, b>>]
           /\ \A e \in EmittedEdges : plane[e] > hard_lb

\* the bodysave of every body of S when equal maximal counts are resolved to
\* the numerically smallest counterpart
SmallestSave(choices, S) ==
    [k \in S |-> CHOOSE v \in choices[k] : \A w \in choices[k] : v <= w]

\* C25 as stated: among counterparts with the same maximal overlap count the
\* stitcher selects the numerically smallest label, so the edges it emits are
\* the ones of that selection whatever the dictionary's iteration order.
C25_TieBreakSmallest ==
    pc = "stitched"
        => pair_merges =
              stitcher(stitch_mode,
                       SmallestSave([b2 \in Labels2 |-> bodysave_choices(overlap_of_body2(b2))],
                                    Labels2),
                       SmallestSave([b1 \in Labels1 |-> bodysave_choices(overlap_of_body1(b1))],
                                    Labels1),
                       subvolume_offsets)

(* --------------------- claims on the stitch modes --------------------- *)
Total1(a) == total_val_of(overlap_of_body1(a))
Total2(b) == total_val_of(overlap_of_body2(b))
BestCounterparts2(b) == {a \in Labels1 : \A c \in Labels1 : Overlap(c, b) <= Overlap(a, b)}
\* best / total >= 0.90 for label a of the first slab, label b of the second
RatioPasses1(a, b) == Overlap(a, b) * 100 >= conservative_overlap_pct * Total1(a)
RatioPasses2(a, b) == Overlap(a, b) * 100 >= conservative_overlap_pct * Total2(b)

\* C23 as stated: in mode conservative, for a label on the interface plane
\* whose best counterpart overlaps it in more than hard_lb voxels, the edge
\* of the two is emitted if best / total >= 0.90 and is not emitted if
\* best / total < 0.90.
C23_ConservativeExactlyRatio ==
    (pc = "stitched" /\ stitch_mode = 1)
        => /\ \A a \in eligible_bodies1 : \A b \in BestCounterparts1(a) :
                 Overlap(a, b) > hard_lb => (<<a, b>> \in EmittedEdges <=> RatioPasses1(a, b))
           /\ \A b \in eligible_bodies2 : \A a \in BestCounterparts2(b) :
                 Overlap(a, b) > hard_lb => (<<a, b>> \in EmittedEdges <=> RatioPasses2(a, b))

\* C23 amended: in mode conservative the edge (a, b) is emitted exactly when
\* both labels are on the interface plane, each has its greatest overlap, of
\* more than hard_lb voxels, with the other, and best / total >= 0.90 holds
\* for a and for b; a ratio below 0.90 on either side rejects the edge.
C23_ConservativeRatioAndMutual ==
    (pc = "stitched" /\ stitch_mode = 1)
        => \A a \in Labels1, b \in Labels2 :
              <<a, b>> \in EmittedEdges
                 <=> /\ a \in eligible_bodies1
                     /\ b \in eligible_bodies2
                     /\ Overlap(a, b) > hard_lb
                     /\ b \in BestCounterparts1(a)
                     /\ a \in BestCounterparts2(b)
                     /\ RatioPasses1(a, b)
                     /\ RatioPasses2(a, b)

\* label 1 of the first slab overlaps only label 1 of the second (ratio 1.0,
\* more than hard_lb voxels) and is not merged, because that label overlaps
\* more with label 3; labels 2 and 2 pass on both sides and are merged
C23_Witness ==
    /\ pc = "stitched"
    /\ stitch_mode = 1
    /\ 1 \in eligible_bodies1
    /\ Overlap(1, 1) > hard_lb
    /\ Overlap(1, 2) = 0
    /\ Overlap(3, 1) > Overlap(1, 1)
    /\ <<1, 1>> \notin EmittedEdges
    /\ <<2, 2>> \in EmittedEdges

\* best / total > 0.90 and best > liberal_lb, for a label of either slab
AggressivePasses1(a, b) ==
    /\ Overlap(a, b) > liberal_lb
    /\ Overlap(a, b) * 100 > conservative_overlap_pct * Total1(a)
AggressivePasses2(a, b) ==
    /\ Overlap(a, b) > liberal_lb
    /\ Overlap(a, b) * 100 > conservative_overlap_pct * Total2(b)

\* C24: in mode aggressive a label of either slab that is on the interface
\* plane and whose best counterpart has best > liberal_lb and
\* best / total > 0.90 gets the edge with that counterpart, whether or not it
\* is the counterpart's best match, and no edge is appended by both loops.
C24_AggressiveWithoutMutuality ==
    (pc = "stitched" /\ stitch_mode = 3)
        => /\ \A a \in eligible_bodies1 : \A b \in BestCounterparts1(a) :
                 AggressivePasses1(a, b) => <<a, b>> \in EmittedEdges
           /\ \A b \in eligible_bodies2 : \A a \in BestCounterparts2(b) :
                 AggressivePasses2(a, b) => <<a, b>> \in EmittedEdges
           /\ pair_merges.pass1 \cap pair_merges.pass2 = {}

\* label 1 of the first slab is merged with label 1 of the second although
\* that label overlaps more with label 2; the edge (3, 2) of the first loop is
\* the best match of label 3 in the second loop as well
C24_Witness ==
    /\ pc = "stitched"
    /\ stitch_mode = 3
    /\ <<1, 1>> \in pair_merges.pass2
    /\ Overlap(2, 1) > Overlap(1, 1)
    /\ <<3, 2>> \in pair_merges.pass1
    /\ 3 \in eligible_bodies1
    /\ BestCounterparts1(3) = {2}

\* the outcomes of the two selection loops for the slabs of the state
SaveChoices1 ==
    bodysave_functions([b2 \in Labels2 |-> bodysave_choices(overlap_of_body2(b2))], Labels2)
SaveChoices2 ==
    bodysave_functions([b1 \in Labels1 |-> bodysave_choices(overlap_of_body1(b1))], Labels1)
\* the edges the stitcher emits for these slabs in a given mode
EdgesInMode(mode, save1, save2) ==
    LET merges == stitcher(mode, save1, save2, subvolume_offsets)
    IN  merges.pass1 \cup merges.pass2

\* C29: for the same two slabs (and the same iteration order of their
\* dictionaries) mode none emits no edge, the edges of mode conservative are
\* among those of mode medium, and these among those of mode aggressive; an
\* emitted edge joins two non-zero labels that overlap in more than hard_lb
\* voxels.
C29_ModesMonotone ==
    pc = "stitched"
        => /\ \A save1 \in SaveChoices1, save2 \in SaveChoices2 :
                 /\ EdgesInMode(0, save1, save2) = {}
                 /\ EdgesInMode(1, save1, save2) \subseteq EdgesInMode(2, save1, save2)
                 /\ EdgesInMode(2, save1, save2) \subseteq EdgesInMode(3, save1, save2)
           /\ \E save1 \in SaveChoices1, save2 \in SaveChoices2 :
                 EmittedEdges = EdgesInMode(stitch_mode, save1, save2)
           /\ \A e \in EmittedEdges : e \in LabelPairs /\ Overlap(e[1], e[2]) > hard_lb

\* slabs for which each mode emits one edge more than the mode before it
C29_Witness ==
    /\ pc = "stitched"
    /\ stitch_mode = 3
    /\ \E save1 \in SaveChoices1, save2 \in SaveChoices2 :
          /\ EmittedEdges = EdgesInMode(3, save1, save2)
          /\ EdgesInMode(1, save1, save2) # {}
          /\ EdgesInMode(1, save1, save2) # EdgesInMode(2, save1, save2)
          /\ EdgesInMode(2, save1, save2) # EdgesInMode(3, save1, save2)

(* -------------------- claims on the driver's merge map ---------------- *)
\* C28: after the driver has processed any list of merge edges, two labels
\* get the same final label exactly when they are in the same connected
\* component of the edges, and every value of body1body2 is not a key or is
\* mapped to itself, so that the single lookup of relabel is final.
C28_FlattenedComponents ==
    pc = "merged"
        => /\ \A x, y \in MergeLabels : relabel(x) = relabel(y) <=> y \in Component(x)
           /\ \A k \in DOMAIN body1body2 :
                 body1body2[k] \in DOMAIN body1body2 => body1body2[body1body2[k]] = body1body2[k]

\* three edges that close a cycle: a label is mapped to a label it has no edge
\* to, and the last edge maps the representative to itself
C28_Witness ==
    /\ pc = "merged"
    /\ Len(merge_list) = MaxEdges
    /\ \E i, j \in DOMAIN merge_list : i < j /\ merge_list[i][2] = merge_list[j][1]
    /\ \E k \in DOMAIN body1body2 :
          /\ body1body2[k] # k
          /\ \A i \in DOMAIN merge_list : merge_list[i] # <<k, body1body2[k]>>
    /\ \E k \in DOMAIN body1body2 : body1body2[k] = k

(* --------------- Segmentor.stitch: offsets and relabel ---------------- *)
NumSubvolumes == 3
MaxId == 2

\* mutant: the offset is set to the previous max_id instead of increased by it
offsets_not_accumulated(subvols) ==
    [i \in DOMAIN subvols |-> IF i = 1 THEN 0 ELSE subvols[i - 1].max_id]

\* offsets[subvolume.roi_id] of "for subvolume in subvolumes": the sum of the
\* max_id of the subvolumes collected before it (roi_id: position in the list)
offsets(subvols) ==
    [i \in DOMAIN subvols |-> SumOver([j \in 1..(i - 1) |-> subvols[j].max_id], 1..(i - 1))]

\* relabel(key_label_mapping): local label -> label of the returned array
relabel_subvolume(labels, offset) ==
    [l \in labels |-> LET moved == l + offset
                          zeroed == IF moved = offset THEN 0 ELSE moved
                      IN  relabel(zeroed)]

\* subvolumes whose labels are at most their max_id, and the master merge
\* list the stitching produces: empty, or one non-zero label mapped to another
InitOffsets ==
    /\ pc = "collected"
    /\ NoBricks
    /\ NoLabelmap
    /\ NoWorkers
    /\ NoCopy
    /\ NoRun
    /\ stitch_mode = 0
    /\ plane = <<>>
    /\ off_plane = <<>>
    /\ pair_merges = <<>>
    /\ merge_list = <<>>
    /\ merge_pos = 0
    /\ body2body1 = <<>>
    /\ subvolumes \in [1..NumSubvolumes ->
                         {sv \in [max_id : 0..MaxId, labels : SUBSET (0..MaxId)] :
                             sv.labels # {} /\ \A l \in sv.labels : l <= sv.max_id}]
    /\ subvolume_offsets = <<>>
    /\ body1body2 \in {<<>>} \cup {k :> v : k \in 1..(NumSubvolumes * MaxId),
                                           v \in 1..(NumSubvolumes * MaxId)}
    /\ relabeled = <<>>
    /\ grouped_boundaries = <<>>
    /\ subvolume_mappings = {}

\* lines 203-209: the offset map is built and broadcast
ComputeOffsets ==
    /\ pc = "collected"
    /\ subvolume_offsets' = offsets(subvolumes)
    /\ pc' = "offsets"
    /\ UNCHANGED <<bounding_box, grid, boxes, brick_vars, labelmap_vars, worker_vars, copy_vars,
                   run_vars, stitch_mode, plane, off_plane, pair_merges, merge_list, merge_pos,
                   body1body2, body2body1, subvolumes, relabeled, grouped_boundaries,
                   subvolume_mappings>>

\* label_chunks.mapValues(relabel), one subvolume at a time
Relabel ==
    /\ pc = "offsets"
    /\ Len(relabeled) < Len(subvolumes)
    /\ LET i == Len(relabeled) + 1
       IN  relabeled' = Append(relabeled,
                               relabel_subvolume(subvolumes[i].labels, subvolume_offsets[i]))
    /\ UNCHANGED <<pc, bounding_box, grid, boxes, brick_vars, labelmap_vars, worker_vars, copy_vars,
                   run_vars, stitch_vars, subvolumes, grouped_boundaries, subvolume_mappings>>

SpecOffsets == InitOffsets /\ [][ComputeOffsets \/ Relabel]_vars

\* the global labels the non-zero local labels 1..max_id of a subvolume get
OffsetRange(i) == {subvolume_offsets[i] + l : l \in 1..subvolumes[i].max_id}

\* C21: with the offsets of Segmentor.stitch and local labels of at most
\* max_id, the offset label ranges of two distinct subvolumes are disjoint,
\* and relabel maps the background label 0 of every subvolume to 0 and no
\* non-zero label to 0.
C21_OffsetsMakeLabelsUnique ==
    pc = "offsets"
        => /\ \A i, j \in DOMAIN subvolumes :
                 i # j => OffsetRange(i) \cap OffsetRange(j) = {}
           /\ \A i \in DOMAIN relabeled : \A l \in subvolumes[i].labels :
                 relabeled[i][l] = 0 <=> l = 0

\* all subvolumes are relabelled; the third one, with a positive offset, has
\* background and a non-zero label that the merge list maps to another label
C21_Witness ==
    /\ pc = "offsets"
    /\ Len(relabeled) = NumSubvolumes
    /\ \A i \in DOMAIN subvolumes : subvolumes[i].max_id = MaxId
    /\ 0 \in subvolumes[NumSubvolumes].labels
    /\ \E l \in subvolumes[NumSubvolumes].labels :
          /\ l # 0
          /\ relabeled[NumSubvolumes][l] # l + subvolume_offsets[NumSubvolumes]

(* -------------- Segmentor.stitch: the boundary groups ----------------- *)
RoiWidth == 2
MaxBorder == 2

\* intersects(pt1, pt2, pt1_2, pt2_2) of extract_boundaries; its two raises
\* need pt1 > pt2, which no region with x1 <= x2 gives
intersects(pt1, pt2, pt1_2, pt2_2) ==
    LET val1 == Max2(pt1, pt1_2)
        val2 == Min2(pt2, pt2_2)
        size == val2 - val1
        npt1 == val1 - pt1
        npt1_2 == val1 - pt1_2
    IN  <<npt1, npt1 + size, npt1_2, npt1_2 + size>>

\* extract_boundaries for subvolume i: the (newkey, slab) pairs it emits, one
\* per partner of local_regions; a slab is kept as its roi_id and the shape of
\* labels[off1:off2] along every axis, labels covering the region and its border
extract_boundaries(subvols, i) ==
    LET subvolume == subvols[i]
        length(a) == subvolume.roi[2][a] - subvolume.roi[1][a] + 2 * subvolume.border
        index(n, k) == IF k < 0 THEN Max2(k + n, 0) ELSE Min2(k, n)
        sliced(n, from, to) == Max2(index(n, to) - index(n, from), 0)
        off(a, roi2) == intersects(subvolume.roi[1][a] - subvolume.border,
                                   subvolume.roi[2][a] + subvolume.border,
                                   roi2[1][a] - subvolume.border,
                                   roi2[2][a] + subvolume.border)
    IN  { << <<Min2(i, partner), Max2(i, partner)>>,
             [roi_id |-> i,
              shape |-> [a \in Axes |-> sliced(length(a), off(a, subvols[partner].roi)[1],
                                                          off(a, subvols[partner].roi)[2])]] >> :
            partner \in subvolume.local_regions }

\* mutant: only the shapes of the slabs are compared
stitcher_raises_on_shapes_only(boundary_list) ==
    \E s, t \in boundary_list : s.shape # t.shape

\* the two raises at the head of stitcher(key_boundary)
stitcher_raises(boundary_list) ==
    \/ Cardinality(boundary_list) # 2
    \/ \E s, t \in boundary_list : s.shape # t.shape

\* regions that are distinct blocks of a regular grid and so touch each other,
\* one border for all subvolumes, and any lists of partners
InitBoundaries ==
    /\ pc = "labelled"
    /\ NoBricks
    /\ NoStitch
    /\ NoLabelmap
    /\ NoWorkers
    /\ NoCopy
    /\ NoRun
    /\ subvolumes \in
          {sv \in {[i \in 1..NumSubvolumes |->
                       [roi |-> << corner[i], [a \in Axes |-> corner[i][a] + RoiWidth] >>,
                        border |-> border,
                        local_regions |-> partners[i]]] :
                     corner \in [1..NumSubvolumes -> [Axes -> {0, RoiWidth}]],
                     border \in 0..MaxBorder,
                     partners \in [1..NumSubvolumes -> SUBSET (1..NumSubvolumes)]} :
              \A i, j \in 1..NumSubvolumes :
                 /\ i \notin sv[i].local_regions
                 /\ i # j => sv[i].roi # sv[j].roi}
    /\ relabeled = <<>>
    /\ grouped_boundaries = <<>>
    /\ subvolume_mappings = {}

\* label_chunks.flatMap(extract_boundaries).groupByKey()
ExtractBoundaries ==
    /\ pc = "labelled"
    /\ LET mapped_boundaries == UNION {extract_boundaries(subvolumes, i) : i \in DOMAIN subvolumes}
       IN  grouped_boundaries' =
              [key \in {m[1] : m \in mapped_boundaries} |->
                  {m[2] : m \in {n \in mapped_boundaries : n[1] = key}}]
    /\ pc' = "grouped"
    /\ UNCHANGED <<bounding_box, grid, boxes, brick_vars, stitch_vars, labelmap_vars, worker_vars,
                   copy_vars, run_vars, subvolumes, relabeled, subvolume_mappings>>

\* grouped_boundaries.map(stitcher) for one key: the job fails when the
\* stitcher raises, else the key gets its merges
StitchGroup ==
    /\ pc = "grouped"
    /\ \E key \in DOMAIN grouped_boundaries \ subvolume_mappings :
          IF stitcher_raises(grouped_boundaries[key])
          THEN pc' = "failed" /\ UNCHANGED subvolume_mappings
          ELSE subvolume_mappings' = subvolume_mappings \cup {key} /\ UNCHANGED pc
    /\ UNCHANGED <<bounding_box, grid, boxes, brick_vars, stitch_vars, labelmap_vars, worker_vars,
                   copy_vars, run_vars, subvolumes, relabeled, grouped_boundaries>>

SpecBoundaries == InitBoundaries /\ [][ExtractBoundaries \/ StitchGroup]_vars

\* every subvolume is listed as a partner by each of its own partners
SymmetricNeighbors ==
    \A i, j \in DOMAIN subvolumes :
        j \in subvolumes[i].local_regions <=> i \in subvolumes[j].local_regions

\* C22: a group of boundary slabs whose size is not 2 never gets merges, the
\* stitching fails only on a group the stitcher raises for, and when the
\* neighbor relation is symmetric every group has exactly two slabs of equal
\* shape and the stitching does not fail.
C22_BoundaryPairs ==
    pc \in {"grouped", "failed"}
        => /\ \A key \in DOMAIN grouped_boundaries :
                 Cardinality(grouped_boundaries[key]) # 2 => key \notin subvolume_mappings
           /\ pc = "failed"
                 => \E key \in DOMAIN grouped_boundaries \ subvolume_mappings :
                       stitcher_raises(grouped_boundaries[key])
           /\ SymmetricNeighbors
                 => /\ pc = "grouped"
                    /\ \A key \in DOMAIN grouped_boundaries :
                          /\ Cardinality(grouped_boundaries[key]) = 2
                          /\ \A s, t \in grouped_boundaries[key] : s.shape = t.shape

\* subvolume 1 lists subvolume 2 but is not listed by it; the stitcher has
\* raised on that group after another group had been stitched
C22_Witness ==
    /\ pc = "failed"
    /\ 2 \in subvolumes[1].local_regions
    /\ 1 \notin subvolumes[2].local_regions
    /\ subvolumes[1].border > 0
    /\ Cardinality(grouped_boundaries[<<1, 2>>]) = 1
    /\ subvolume_mappings # {}

(* ----------------------------- Workflow.run --------------------------- *)
\* the options run() reads; "absent", and -1 for the port, stand for a key the
\* workflow's schema does not define
InitRun ==
    /\ pc = "run"
    /\ NoBricks
    /\ NoStitch
    /\ NoLabelmap
    /\ NoWorkers
    /\ NoCopy
    /\ NoBoundaries
    /\ config_data \in [log_collector_port : {0, 3000},
                        resource_server : {"absent", "", "driver", "10.0.0.2"},
                        resource_port : {0 - 1, 0, 4000}]
    /\ log_server_proc = "none"
    /\ resource_server_proc = "none"
    /\ exception = "none"

\* log_server_proc = self._start_logserver(): no process for port 0; else the
\* process is started and the call returns it, or raises when the server does
\* not answer the second request or answers with an error status
StartLogserver ==
    /\ pc = "run"
    /\ IF config_data.log_collector_port = 0
       THEN /\ pc' = "logserver_started"
            /\ UNCHANGED <<log_server_proc, exception>>
       ELSE /\ log_server_proc' = "running"
            /\ \/ pc' = "logserver_started" /\ UNCHANGED exception
               \/ pc' = "raised" /\ exception' = "_start_logserver"
    /\ UNCHANGED <<bounding_box, grid, boxes, brick_vars, stitch_vars, labelmap_vars, worker_vars,
                   copy_vars, boundary_vars, config_data, resource_server_proc>>

\* resource_server_proc = self._start_resource_server()
StartResourceServer ==
    /\ pc = "logserver_started"
    /\ LET server == IF config_data.resource_server = "absent" THEN ""
                     ELSE config_data.resource_server
           port == IF config_data.resource_port = 0 - 1 THEN 0 ELSE config_data.resource_port
           defaults == [config_data EXCEPT !.resource_server = server, !.resource_port = port]
       IN  IF server = ""
           THEN /\ config_data' = defaults
                /\ pc' = "servers_started"
                /\ UNCHANGED <<resource_server_proc, exception>>
           ELSE IF port = 0
           THEN /\ config_data' = defaults
                /\ pc' = "raised"
                /\ exception' = "_start_resource_server"
                /\ UNCHANGED resource_server_proc
           ELSE IF server # "driver"
           THEN /\ config_data' = defaults
                /\ pc' = "servers_started"
                /\ UNCHANGED <<resource_server_proc, exception>>
           ELSE /\ config_data' = [defaults EXCEPT !.resource_server = "driver_ip_addr"]
                /\ resource_server_proc' = "running"
                /\ pc' = "servers_started"
                /\ UNCHANGED exception
    /\ UNCHANGED <<bounding_box, grid, boxes, brick_vars, stitch_vars, labelmap_vars, worker_vars,
                   copy_vars, boundary_vars, log_server_proc>>

\* try: self.execute(), which returns or raises
Execute ==
    /\ pc = "servers_started"
    /\ exception' \in {"none", "execute"}
    /\ pc' = "finally"
    /\ UNCHANGED <<bounding_box, grid, boxes, brick_vars, stitch_vars, labelmap_vars, worker_vars,
                   copy_vars, boundary_vars, config_data, log_server_proc, resource_server_proc>>

\* the finally block: terminate the resource server, then the log server,
\* then run() returns or the exception of execute() goes on
Finally ==
    /\ \/ /\ pc = "finally"
          /\ resource_server_proc' = IF resource_server_proc = "running" THEN "terminated"
                                     ELSE resource_server_proc
          /\ pc' = "finally_logserver"
          /\ UNCHANGED log_server_proc
       \/ /\ pc = "finally_logserver"
          /\ log_server_proc' = IF log_server_proc = "running" THEN "terminated"
                                ELSE log_server_proc
          /\ pc' = IF exception = "none" THEN "returned" ELSE "raised"
          /\ UNCHANGED resource_server_proc
    /\ UNCHANGED <<bounding_box, grid, boxes, brick_vars, stitch_vars, labelmap_vars, worker_vars,
                   copy_vars, boundary_vars, config_data, exception>>

SpecRun == InitRun /\ [][StartLogserver \/ StartResourceServer \/ Execute \/ Finally]_vars

\* C30 as stated: whenever run() has exited, by returning or with an exception
\* of execute() or of the start-up of a server, no process it started is left
\* without a terminate.
C30_ServersTerminatedOnExit ==
    pc \in {"returned", "raised"}
        => log_server_proc # "running" /\ resource_server_proc # "running"

====
